---- MODULE Spec2Model ----
(***************************************************************************)
(* A model of mathcha2tikz: Converter.convert and the stages it drives     *)
(* (Parser, Detector, Processor, GlobalRenderer, PostProcessor, node       *)
(* placement, compose_output).                                             *)
(*                                                                         *)
(* An input document is a sequence of raw blocks.  A block is described by *)
(* the type hint of its annotation line, the class of its body, and the    *)
(* exception (if any) that handling it raises inside one of the try        *)
(* bodies of the pipeline.  Every block carries an id; the model uses the  *)
(* position of the block in the input as that id.                          *)
(*                                                                         *)
(* Two further specifications follow the text itself.  SpecText takes a    *)
(* document line by line through Parser, Detector and Processor, keeping   *)
(* the whitespace around each line.  SpecTrip applies convert twice to a   *)
(* Straight Lines block whose style block is a sequence of characters.     *)
(***************************************************************************)
EXTENDS Integers, Sequences, FiniteSets, TLC

\* ---------------------------------------------------------------- bounds
MaxBlocks == 2
MaxEnvBlocks == 2
MaxOrderBlocks == 3

\* ---------------------------------------------------------------- inputs
\* Type hints found in annotation lines ("%Straight Lines [id:..]",
\* "%Shape: Rectangle [id:..]", ...).
AnnotationHints ==
    {"Straight Lines", "Curve Lines", "Ellipse", "Arc", "Text Node", "Rectangle"}

\* Classes of block bodies, by what the shape processors find in them.
\* "noted" is a body that opens with a comment line starting like one of
\* the classic preamble lines ("% Classic Mode ...").
\* "label" and "farlabel" are standalone node labels, near to and far from
\* the nearest path.  "labelfirst" is a label command followed by the draw
\* command of the shape; "inlabel" and "infarlabel" are the draw command of
\* the shape followed by a label command, near to and far from the path.
BodyClasses ==
    {"good", "nomain", "fewpoints", "singular", "degenerate", "empty", "label",
     "farlabel", "noted", "labelfirst", "inlabel", "infarlabel"}

Labels == {"label", "farlabel"}

\* The bodies that hold a label command.
LabelBodies == Labels \cup {"labelfirst", "inlabel", "infarlabel"}

\* Where handling a block raises: nowhere, in Parser._parse_block, in
\* Detector.detect, in the processor before rendering, or in the renderer.
Faults == {"none", "parse", "detect", "proc", "render"}

\* Body classes a hint can come with.
BodiesOf(hint) ==
    CASE hint = "Straight Lines" ->
            {"good", "nomain", "fewpoints", "empty", "inlabel", "infarlabel"}
      [] hint = "Curve Lines" ->
            {"good", "nomain", "fewpoints", "empty"}
      [] hint \in {"Ellipse", "Arc"} ->
            {"good", "nomain", "fewpoints", "singular", "degenerate", "empty"}
      [] hint = "Text Node" -> Labels
      [] OTHER -> {"good", "empty", "noted", "labelfirst"}

\* Faults a block can show: a renderer only runs for a body that gets as far
\* as rendering, a processor exception needs a registered shape processor.
FaultsOf(hint, body) ==
    IF body \in {"good", "label", "farlabel"}
    THEN IF hint \in {"Text Node", "Rectangle"}
         THEN {"none", "parse", "detect"}
         ELSE Faults
    ELSE {"none"}

Blocks ==
    { b \in [hint : AnnotationHints, body : BodyClasses, fault : Faults] :
        /\ b.body \in BodiesOf(b.hint)
        /\ b.fault \in FaultsOf(b.hint, b.body) }

Documents == UNION { [1..n -> Blocks] : n \in 0..MaxBlocks }

\* The documents run under every configuration: a straight line, a shape
\* of an unknown type and labels near to and far from them.
EnvBlocks ==
    { [hint |-> "Straight Lines", body |-> "good",     fault |-> "none"],
      [hint |-> "Rectangle",      body |-> "good",     fault |-> "none"],
      [hint |-> "Text Node",      body |-> "label",    fault |-> "none"],
      [hint |-> "Text Node",      body |-> "farlabel", fault |-> "none"] }

EnvDocuments == UNION { [1..n -> EnvBlocks] : n \in 1..MaxEnvBlocks }

\* The documents run for the order of the output: shapes that survive,
\* shapes that are dropped, labels that are placed or left, a body with a
\* preamble-like comment, a block with no body.
OrderBlocks ==
    { [hint |-> "Straight Lines", body |-> "good",     fault |-> "none"],
      [hint |-> "Straight Lines", body |-> "good",     fault |-> "proc"],
      [hint |-> "Rectangle",      body |-> "noted",    fault |-> "none"],
      [hint |-> "Rectangle",      body |-> "empty",    fault |-> "none"],
      [hint |-> "Text Node",      body |-> "label",    fault |-> "none"],
      [hint |-> "Text Node",      body |-> "farlabel", fault |-> "none"] }

OrderDocuments == UNION { [1..n -> OrderBlocks] : n \in 1..MaxOrderBlocks }

\* Renderer options a caller can pass in Converter(config): the 'nodes'
\* entry is absent, a dict with a numeric or a non-numeric max_distance, or
\* not a dict at all; renderer_options itself is absent, a dict, or a value
\* dict() rejects.
NodesOptions ==
    { [kind |-> "absent",     value |-> 0],
      [kind |-> "numeric",    value |-> 45],
      [kind |-> "nonnumeric", value |-> 0],
      [kind |-> "notdict",    value |-> 0] }

Modes == {"classic", "obsidian", "bogus"}

Configs ==
    [mode : Modes, renderer_options : {"absent", "dict", "notdict"},
     nodes : NodesOptions]

DefaultConfig ==
    [mode |-> "classic", renderer_options |-> "absent",
     nodes |-> [kind |-> "absent", value |-> 0]]

\* A config is one the code can be handed: the 'nodes' entry lives inside
\* renderer_options, so it is absent unless renderer_options is a dict.
WellFormedConfig(c) ==
    c.renderer_options # "dict" => c.nodes.kind = "absent"

\* Post-render steps that may raise internally.
PostStages == {"color", "opacity", "dash", "nodes"}

\* ----------------------------------------------------------------- state
VARIABLES
    input,             \* the raw blocks of input_str, in order
    cfg,               \* Converter.config and the mode argument
    stage_faults,      \* the post-render steps that raise in this run
    pc,                \* position inside Converter.convert
    shape_blocks,      \* ids of the blocks Parser.parse returned
    detected_shapes,   \* records the Detector produced, in order
    processed_shapes,  \* results the Processor produced, in order
    renderer_cfg,      \* renderer_cfg['nodes'] as convert builds it
    body,              \* the rendered text, line by line, through the stages
    color_defs,        \* whether colour definitions were generated
    output,            \* the lines convert returns
    outcome,           \* "none" while running, "output" or the error raised
    t_doc,             \* text model: the lines of input_str
    t_pc,              \* text model: position inside the pipeline
    t_raw,             \* text model: what Parser._get_raw_blocks returned
    t_blocks,          \* text model: the ShapeBlocks of Parser.parse
    t_shapes,          \* text model: the records of Detector.detect
    t_results,         \* text model: the results of Processor.process
    r_in,              \* round trip: the straight-line block converted
    r_pc,              \* round trip: how many conversions were applied
    r_first,           \* round trip: convert(x, mode)
    r_second,          \* round trip: convert(convert(x, mode), mode)
    renderer_config,   \* Renderer.config / GlobalRenderer.config
    renderer_shapes,   \* GlobalRenderer.processed_shapes
    renderers_cache,   \* keys of GlobalRenderer._renderers_cache
    later,             \* the inputs the caller still hands to this Converter
    results,           \* what the earlier convert calls returned or raised
    f_pc,              \* a component used on its own: position of the call
    f_in,              \* a component used on its own: the arguments
    f_obj,             \* a component used on its own: what the object holds
    f_out              \* a component used on its own: the value returned

\* What a Converter keeps between two calls of convert.
inst_vars == <<renderer_config, renderer_shapes, renderers_cache>>

\* The caller's side of a Converter that is used more than once.
sess_vars == <<later, results>>

pipe_vars == <<input, cfg, stage_faults, pc, shape_blocks, detected_shapes,
               processed_shapes, renderer_cfg, body, color_defs, output,
               outcome, inst_vars, sess_vars>>

text_vars == <<t_doc, t_pc, t_raw, t_blocks, t_shapes, t_results>>

trip_vars == <<r_in, r_pc, r_first, r_second>>

call_vars == <<f_pc, f_in, f_obj, f_out>>

vars == <<pipe_vars, text_vars, trip_vars, call_vars>>

\* The text model and the round trip before they are given an input.
TextIdle ==
    /\ t_doc = <<>>
    /\ t_pc = "idle"
    /\ t_raw = <<>>
    /\ t_blocks = <<>>
    /\ t_shapes = <<>>
    /\ t_results = <<>>

TripIdle ==
    /\ r_in = <<>>
    /\ r_pc = "idle"
    /\ r_first = <<>>
    /\ r_second = <<>>

\* No component is used on its own.
CallIdle ==
    /\ f_pc = "idle"
    /\ f_in = <<>>
    /\ f_obj = <<>>
    /\ f_out = <<>>

\* renderer_cfg['nodes'] before convert fills it in.
NoNodesCfg == [enabled |-> FALSE, list |-> <<>>, kind |-> "none", value |-> 0]

\* Converter.__init__: a new Renderer has an empty config, no shapes and no
\* cached shape renderers.
ConverterFresh ==
    /\ renderer_config = NoNodesCfg
    /\ renderer_shapes = <<>>
    /\ renderers_cache = {}

\* A caller that calls convert once.
SingleCall ==
    /\ later = <<>>
    /\ results = <<>>

Init ==
    /\ input \in Documents
    /\ cfg = DefaultConfig
    /\ stage_faults = {}
    /\ pc = "parse"
    /\ shape_blocks = <<>>
    /\ detected_shapes = <<>>
    /\ processed_shapes = <<>>
    /\ renderer_cfg = NoNodesCfg
    /\ body = <<>>
    /\ color_defs = FALSE
    /\ output = <<>>
    /\ outcome = "none"
    /\ TextIdle
    /\ TripIdle
    /\ ConverterFresh
    /\ CallIdle
    /\ SingleCall

\* The same pipeline under every configuration and every combination of
\* failing post-render steps.
InitEnv ==
    /\ input \in EnvDocuments
    /\ cfg \in { c \in Configs : WellFormedConfig(c) }
    /\ stage_faults \in SUBSET PostStages
    /\ pc = "parse"
    /\ shape_blocks = <<>>
    /\ detected_shapes = <<>>
    /\ processed_shapes = <<>>
    /\ renderer_cfg = NoNodesCfg
    /\ body = <<>>
    /\ color_defs = FALSE
    /\ output = <<>>
    /\ outcome = "none"
    /\ TextIdle
    /\ TripIdle
    /\ ConverterFresh
    /\ CallIdle
    /\ SingleCall

\* The same pipeline on longer documents, in every mode.
InitOrder ==
    /\ input \in OrderDocuments
    /\ cfg \in { c \in Configs : c.renderer_options = "absent"
                                  /\ c.nodes.kind = "absent" }
    /\ stage_faults = {}
    /\ pc = "parse"
    /\ shape_blocks = <<>>
    /\ detected_shapes = <<>>
    /\ processed_shapes = <<>>
    /\ renderer_cfg = NoNodesCfg
    /\ body = <<>>
    /\ color_defs = FALSE
    /\ output = <<>>
    /\ outcome = "none"
    /\ TextIdle
    /\ TripIdle
    /\ ConverterFresh
    /\ CallIdle
    /\ SingleCall

\* ---------------------------------------------------------------- Parser
Ids(n) == [k \in 1..n |-> k]

\* Variant: the first failing block aborts the whole parse.
ParserParse_AbortOnFailure(inp) ==
    IF \E k \in 1..Len(inp) : inp[k].fault = "parse"
    THEN <<>>
    ELSE Ids(Len(inp))

\* Parser.parse: a block whose _parse_block raises is logged and skipped.
ParserParse(inp) ==
    SelectSeq(Ids(Len(inp)), LAMBDA k : inp[k].fault # "parse")

\* Variant: no check for an empty block list.
Parse_NoBlockCheck ==
    /\ pc = "parse"
    /\ shape_blocks' = ParserParse(input)
    /\ pc' = "detect"
    /\ UNCHANGED <<call_vars, text_vars, trip_vars, sess_vars, inst_vars>>
    /\ UNCHANGED <<input, cfg, stage_faults, detected_shapes, processed_shapes,
                   renderer_cfg, body, color_defs, output, outcome>>

\* convert, lines 39-41
Parse ==
    /\ pc = "parse"
    /\ shape_blocks' = ParserParse(input)
    /\ IF shape_blocks' = <<>>
       THEN pc' = "done" /\ outcome' = "ParserError"
       ELSE pc' = "detect" /\ outcome' = outcome
    /\ UNCHANGED <<call_vars, text_vars, trip_vars, sess_vars, inst_vars>>
    /\ UNCHANGED <<input, cfg, stage_faults, detected_shapes, processed_shapes,
                   renderer_cfg, body, color_defs, output>>

\* -------------------------------------------------------------- Detector
\* detector._normalize on the type text of an annotation.
_normalize(hint) ==
    CASE hint = "Straight Lines" -> "straight_lines"
      [] hint = "Curve Lines"    -> "curve_lines"
      [] hint = "Ellipse"        -> "ellipse"
      [] hint = "Arc"            -> "arc"
      [] hint = "Text Node"      -> "text_node"
      [] OTHER                   -> "rectangle"

\* detector._ALIAS_LOOKUP, with Detector._resolve_shape_type's default.
_resolve_shape_type(hint) ==
    LET n == _normalize(hint) IN
    CASE n \in {"straight_lines", "straight_line", "straightline", "line", "lines"}
            -> "StraightLine"
      [] n \in {"curve_lines", "curve_line", "curveline", "curve"} -> "CurveLine"
      [] n \in {"arc", "elliptical_arc"}   -> "Arc"
      [] n \in {"ellipse", "ellipseshape"} -> "Ellipse"
      [] n = "circle"                      -> "Circle"
      [] n \in {"text_node", "text", "node"} -> "Text Node"
      [] OTHER -> "unknown"

\* Detector.detect: one record per block.
Detect(k) == [id |-> k, shape_type |-> _resolve_shape_type(input[k].hint)]

\* convert, lines 43-52: a block whose detection raises DetectionError is
\* logged and skipped.
DetectAll ==
    /\ pc = "detect"
    /\ LET ok == SelectSeq(shape_blocks, LAMBDA k : input[k].fault # "detect")
       IN  detected_shapes' = [j \in 1..Len(ok) |-> Detect(ok[j])]
    /\ IF detected_shapes' = <<>>
       THEN pc' = "done" /\ outcome' = "DetectionError"
       ELSE pc' = "process" /\ outcome' = outcome
    /\ UNCHANGED <<call_vars, text_vars, trip_vars, sess_vars, inst_vars>>
    /\ UNCHANGED <<input, cfg, stage_faults, shape_blocks, processed_shapes,
                   renderer_cfg, body, color_defs, output>>

\* ------------------------------------------------------------- Processor
\* ProcessorRegistry after register_builtin_processors: the class found for
\* a shape type, RawPassthroughProcessor being the registered fallback.
get_processor(shape_type) ==
    CASE shape_type \in {"StraightLine", "Line"} -> "StraightProcessor"
      [] shape_type \in {"CurveLine", "Curve"}   -> "CurveProcessor"
      [] shape_type \in {"EllipseShape", "Ellipse", "Circle"} -> "EllipseProcessor"
      [] shape_type \in {"ArcShape", "Arc", "arc"} -> "ArcProcessor"
      [] OTHER -> "RawPassthroughProcessor"

\* What a processor hands back for a block.  kind is
\*   "raw"     the annotation line and the body lines, verbatim
\*   "annot"   the annotation line alone
\*   "blank"   {'tikz_code': ''}
\*   "canon"   the id header and the draw command the inline renderer built
\*   "synth"   the id header and a draw command built from no geometry
\*   "payload" a dict without 'tikz_code', left to the registry renderer
\*   "error"   ProcessingError raised
Result(k, kind) == [id |-> k, kind |-> kind]

\* RawPassthroughProcessor.process
RawPassthroughProcessor(k) ==
    IF input[k].body = "empty" THEN Result(k, "annot") ELSE Result(k, "raw")

\* BaseShapeProcessor.process with StraightProcessor / CurveProcessor hooks:
\* the renderer is called whenever a main command was found.
BaseShapeProcessor(k) ==
    LET b == input[k] IN
    CASE b.body = "empty"     -> Result(k, "blank")
      [] b.fault = "proc"     -> Result(k, "error")
      [] b.body = "nomain"    -> Result(k, "raw")
      [] b.body = "fewpoints" -> Result(k, "synth")
      [] b.fault = "render"   -> Result(k, "error")
      [] OTHER                -> Result(k, "canon")

\* EllipseProcessor.process
EllipseProcessor(k) ==
    LET b == input[k] IN
    CASE b.body = "empty"   -> Result(k, "blank")
      [] b.fault = "proc"   -> Result(k, "error")
      [] b.body \in {"nomain", "fewpoints", "singular", "degenerate"}
                            -> Result(k, "raw")
      [] b.fault = "render" -> Result(k, "error")
      [] OTHER              -> Result(k, "canon")

\* ArcProcessor.process: no inline rendering.
ArcProcessor(k) ==
    LET b == input[k] IN
    CASE b.body = "empty"   -> Result(k, "blank")
      [] b.fault = "proc"   -> Result(k, "error")
      [] b.body \in {"nomain", "fewpoints", "singular", "degenerate"}
                            -> Result(k, "raw")
      [] OTHER              -> Result(k, "payload")

\* Processor.process: dispatch through the registry; every exception of the
\* processor, RenderingError included, leaves as ProcessingError.
ProcessorProcess(shape) ==
    LET cls == get_processor(shape.shape_type) IN
    CASE cls = "StraightProcessor" -> BaseShapeProcessor(shape.id)
      [] cls = "CurveProcessor"    -> BaseShapeProcessor(shape.id)
      [] cls = "EllipseProcessor"  -> EllipseProcessor(shape.id)
      [] cls = "ArcProcessor"      -> ArcProcessor(shape.id)
      [] OTHER                     -> RawPassthroughProcessor(shape.id)

\* convert, lines 54-64: a shape whose processing raises ProcessingError is
\* logged and skipped.
ProcessAll ==
    /\ pc = "process"
    /\ LET res == [j \in 1..Len(detected_shapes) |->
                      ProcessorProcess(detected_shapes[j])]
       IN  processed_shapes' = SelectSeq(res, LAMBDA r : r.kind # "error")
    /\ IF processed_shapes' = <<>>
       THEN pc' = "done" /\ outcome' = "ProcessingError"
       ELSE pc' = "configure" /\ outcome' = outcome
    /\ UNCHANGED <<call_vars, text_vars, trip_vars, sess_vars, inst_vars>>
    /\ UNCHANGED <<input, cfg, stage_faults, shape_blocks, detected_shapes,
                   renderer_cfg, body, color_defs, output>>

\* ------------------------------------------------------- configuration
\* NodeParser.parse_nodes(input_str): the standalone labels of the input,
\* found in the raw text whether or not their block parsed.
parse_nodes(inp) ==
    SelectSeq(Ids(Len(inp)), LAMBDA k : inp[k].body \in LabelBodies)

\* convert, lines 66-85.  dict() on a renderer_options value that is not a
\* mapping raises, and the exception leaves convert as ProcessingError
\* (lines 217-218).  A non-dict 'nodes' entry gives the limit 50.0, a missing
\* max_distance the limit 30.0, anything else is copied as it is.  An
\* exception of Renderer.configure is swallowed.
\* Variant: the 'nodes' entry is written into the caller's renderer_options
\* instead of into a copy of them.
Configure_NoCopy ==
    /\ pc = "configure"
    /\ IF cfg.renderer_options = "notdict"
       THEN /\ pc' = "done"
            /\ outcome' = "ProcessingError"
            /\ renderer_cfg' = renderer_cfg
            /\ cfg' = cfg
       ELSE /\ pc' = "render"
            /\ outcome' = outcome
            /\ LET nodes_list == parse_nodes(input) IN
               /\ renderer_cfg' =
                    IF nodes_list = <<>> THEN NoNodesCfg
                    ELSE [enabled |-> TRUE, list |-> nodes_list,
                          kind |-> "numeric", value |-> 30]
               /\ cfg' = IF nodes_list = <<>> THEN cfg
                         ELSE [cfg EXCEPT !.renderer_options = "dict",
                                          !.nodes = [kind |-> "numeric",
                                                     value |-> 30]]
    /\ renderer_config' = IF pc' = "render" THEN renderer_cfg'
                                            ELSE renderer_config
    /\ UNCHANGED <<call_vars, text_vars, trip_vars, sess_vars, renderer_shapes,
                   renderers_cache>>
    /\ UNCHANGED <<input, stage_faults, shape_blocks, detected_shapes,
                   processed_shapes, body, color_defs, output>>

Configure ==
    /\ pc = "configure"
    /\ IF cfg.renderer_options = "notdict"
       THEN /\ pc' = "done"
            /\ outcome' = "ProcessingError"
            /\ renderer_cfg' = renderer_cfg
       ELSE /\ pc' = "render"
            /\ outcome' = outcome
            /\ LET nodes_list == parse_nodes(input) IN
               renderer_cfg' =
                 IF nodes_list = <<>> THEN NoNodesCfg
                 ELSE CASE cfg.nodes.kind = "notdict" ->
                             [enabled |-> TRUE, list |-> nodes_list,
                              kind |-> "numeric", value |-> 50]
                        [] cfg.nodes.kind = "absent" ->
                             [enabled |-> TRUE, list |-> nodes_list,
                              kind |-> "numeric", value |-> 30]
                        [] OTHER ->
                             [enabled |-> TRUE, list |-> nodes_list,
                              kind |-> cfg.nodes.kind, value |-> cfg.nodes.value]
    /\ renderer_config' = IF pc' = "render" THEN renderer_cfg'
                                            ELSE renderer_config
    /\ UNCHANGED <<call_vars, text_vars, trip_vars, sess_vars, renderer_shapes,
                   renderers_cache>>
    /\ UNCHANGED <<input, cfg, stage_faults, shape_blocks, detected_shapes,
                   processed_shapes, body, color_defs, output>>

\* -------------------------------------------------------------- Renderer
\* A line of text.  owner is the id of the block it came from (0 for the
\* lines of the template), kind says what the line is, form how a draw
\* command came about, path whether it holds '--' (what the anchor scan calls
\* a path), style the style keys still in verbose form, labels the node
\* snippets spliced in before its final ';'.
VerboseStyle == {"rgb", "opacity1", "dashpattern"}

Line(owner, kind, form, path) ==
    [owner |-> owner, kind |-> kind, form |-> form, path |-> path,
     style |-> IF kind = "draw" THEN VerboseStyle ELSE {},
     labels |-> <<>>]

TemplateLine(kind) == Line(0, kind, "", FALSE)

\* The lines of a block's body as they stand in the input.
BodyLines(k) ==
    LET b == input[k] IN
    CASE b.body = "empty"  -> <<>>
      [] b.body \in Labels -> << Line(k, "label", "raw", FALSE) >>
      [] b.body = "nomain" -> << Line(k, "statement", "raw", FALSE) >>
      [] b.body = "noted"  -> << Line(k, "note", "raw", FALSE),
                                 Line(k, "draw", "raw", TRUE) >>
      [] b.body = "labelfirst" -> << Line(k, "label", "raw", FALSE),
                                     Line(k, "draw", "raw", TRUE) >>
      [] b.body \in {"inlabel", "infarlabel"} ->
                              << Line(k, "draw", "raw", TRUE),
                                 Line(k, "label", "raw", FALSE) >>
      [] OTHER -> << Line(k, "draw", "raw",
                          b.hint \in {"Straight Lines", "Rectangle"}) >>

\* The tikz_code of a processed shape, as lines.
TikzCode(r) ==
    LET k == r.id
        straight == input[k].hint = "Straight Lines"
    IN
    CASE r.kind = "raw"   -> << Line(k, "annot", "raw", FALSE) >> \o BodyLines(k)
      [] r.kind = "annot" -> << Line(k, "annot", "raw", FALSE) >>
      [] r.kind = "blank" -> << Line(k, "blank", "", FALSE) >>
      [] r.kind = "synth" -> << Line(k, "annot", "canon", FALSE),
                                Line(k, "draw", "synth", straight) >>
      [] OTHER            -> << Line(k, "annot", "canon", FALSE),
                                Line(k, "draw", "canon", straight) >>

\* RendererRegistry after register_builtin_renderers: the shape types that
\* have a renderer (none is registered for CurveLine, and no fallback).
RegisteredRenderers ==
    {"StraightLine", "Line", "EllipseShape", "Ellipse", "Circle",
     "ArcShape", "Arc", "arc"}

\* GlobalRenderer.render, the loop over processed shapes: a dict with
\* 'tikz_code' is taken as it is; anything else goes to the registry
\* renderer of its type, and a missing renderer or an exception in it is a
\* RenderingError.
RenderFails(r) ==
    /\ r.kind = "payload"
    /\ \/ "Arc" \notin RegisteredRenderers
       \/ input[r.id].fault = "render"

\* Variant: the parts are joined last to first.
RECURSIVE ConcatReversed(_)
ConcatReversed(parts) ==
    IF parts = <<>> THEN <<>> ELSE ConcatReversed(Tail(parts)) \o Head(parts)

\* "\n".join(tikz_code_parts)
RECURSIVE Concat(_)
Concat(parts) ==
    IF parts = <<>> THEN <<>> ELSE Head(parts) \o Concat(Tail(parts))

\* templates.get_template: an unknown mode gets the classic template.
get_template(mode) == IF mode = "obsidian" THEN "obsidian" ELSE "classic"

\* templates.apply_template around the joined parts.
apply_template(lines, mode) ==
    LET inner == << TemplateLine("begin"), TemplateLine("mode"),
                    TemplateLine("blank") >>
                 \o lines
                 \o << TemplateLine("blank"), TemplateLine("end") >>
    IN  IF get_template(mode) = "obsidian"
        THEN << TemplateLine("setup"), TemplateLine("blank"),
                TemplateLine("begindoc"), TemplateLine("blank") >>
             \o inner \o << TemplateLine("blank"), TemplateLine("enddoc") >>
        ELSE << TemplateLine("preamble"), TemplateLine("blank") >> \o inner

\* GlobalRenderer.render, lines 215-217: the registry keys that get a cached
\* renderer in this call, which are those of the shapes reached before the
\* first failure.
NewlyCached(shapes) ==
    { "arc" : j \in { i \in 1..Len(shapes) :
                        /\ shapes[i].kind = "payload"
                        /\ "Arc" \in RegisteredRenderers
                        /\ \A h \in 1..(i - 1) : ~RenderFails(shapes[h]) } }

Render ==
    /\ pc = "render"
    /\ renderer_shapes' = processed_shapes
    /\ renderers_cache' = renderers_cache \cup NewlyCached(renderer_shapes')
    /\ IF \E j \in 1..Len(renderer_shapes') : RenderFails(renderer_shapes'[j])
       THEN /\ pc' = "done"
            /\ outcome' = "RenderingError"
            /\ body' = body
       ELSE /\ pc' = "color"
            /\ outcome' = outcome
            /\ body' = apply_template(
                         Concat([j \in 1..Len(renderer_shapes') |->
                                    TikzCode(renderer_shapes'[j])]),
                         cfg.mode)
    /\ UNCHANGED <<call_vars, text_vars, trip_vars, sess_vars, renderer_config>>
    /\ UNCHANGED <<input, cfg, stage_faults, shape_blocks, detected_shapes,
                   processed_shapes, renderer_cfg, color_defs, output>>

\* --------------------------------------------------------- PostProcessor
\* ColorPostProcessor: RGB literals become named colours.
ColorStage(lines) ==
    [j \in 1..Len(lines) |->
        IF "rgb" \in lines[j].style
        THEN [lines[j] EXCEPT !.style = (@ \ {"rgb"}) \cup {"named"}]
        ELSE lines[j]]

\* OpacityPostProcessor: 'draw opacity = 1' is dropped.
OpacityStage(lines) ==
    [j \in 1..Len(lines) |-> [lines[j] EXCEPT !.style = @ \ {"opacity1"}]]

\* DashPatternPostProcessor: a dash pattern becomes a named dash style.
DashStage(lines) ==
    [j \in 1..Len(lines) |->
        IF "dashpattern" \in lines[j].style
        THEN [lines[j] EXCEPT !.style = (@ \ {"dashpattern"}) \cup {"dashed"}]
        ELSE lines[j]]

\* PostProcessor._apply_opacity_postprocessor / _apply_dash_postprocessor:
\* an exception of the stage hands the text on unchanged.
_apply_opacity_postprocessor(lines) ==
    IF "opacity" \in stage_faults THEN lines ELSE OpacityStage(lines)

_apply_dash_postprocessor(lines) ==
    IF "dash" \in stage_faults THEN lines ELSE DashStage(lines)

\* PostProcessor.process: an exception of the colour stage returns the
\* rendered text at once, with no colour definitions.
PostProcess ==
    /\ pc = "color"
    /\ IF "color" \in stage_faults
       THEN /\ body' = body
            /\ color_defs' = FALSE
       ELSE /\ body' = _apply_dash_postprocessor(
                         _apply_opacity_postprocessor(ColorStage(body)))
            /\ color_defs' = \E j \in 1..Len(body) : "rgb" \in body[j].style
    /\ pc' = "nodes"
    /\ UNCHANGED <<call_vars, text_vars, trip_vars, sess_vars, inst_vars>>
    /\ UNCHANGED <<input, cfg, stage_faults, shape_blocks, detected_shapes,
                   processed_shapes, renderer_cfg, output, outcome>>

\* -------------------------------------------------------- node placement
\* Distance from a label to the nearest path anchor.
Distance(k) == IF input[k].body \in {"farlabel", "infarlabel"} THEN 40 ELSE 10

\* collect_anchors_from_tikz_parts with NodePlacer's default allowed types:
\* the indices of the lines classified 'path'.
PathAnchors(lines) ==
    { j \in 1..Len(lines) : lines[j].kind = "draw" /\ lines[j].path }

\* convert, lines 105-108, and NodePlacer.place_nodes line 115: a limit that
\* is not a number is no limit.
WithinLimit(k) ==
    renderer_cfg.kind # "numeric" \/ Distance(k) <= renderer_cfg.value

\* convert, lines 112-125 (_inject_snippet): the snippets of the placed
\* nodes go into their target lines, in the order of the placements.
RECURSIVE Inject(_, _, _)
Inject(lines, nodes, target) ==
    IF nodes = <<>> THEN lines
    ELSE LET k == Head(nodes)
             t == target[k]
             next == IF WithinLimit(k)
                     THEN [lines EXCEPT ![t].labels = Append(@, k)]
                     ELSE lines
         IN  Inject(next, Tail(nodes), target)

\* convert, lines 150-156
_is_comment_only(line) ==
    line.kind \in {"annot", "note", "preamble", "mode", "setup"}

\* convert, lines 158-203: a standalone label line of a placed node is
\* removed, and with it the comment-only line kept just before it.
RECURSIVE Filter(_, _, _)
Filter(filtered_parts, rest, placed) ==
    IF rest = <<>> THEN filtered_parts
    ELSE LET part == Head(rest) IN
         IF part.kind = "label" /\ part.owner \in placed
         THEN IF filtered_parts # <<>>
                 /\ _is_comment_only(filtered_parts[Len(filtered_parts)])
              THEN Filter(SubSeq(filtered_parts, 1, Len(filtered_parts) - 1),
                          Tail(rest), placed)
              ELSE Filter(filtered_parts, Tail(rest), placed)
         ELSE Filter(Append(filtered_parts, part), Tail(rest), placed)

\* convert, lines 97-205.  Which path line is nearest to a label is geometry
\* the model leaves open.  An exception anywhere in the block leaves
\* processed_body as the post-processor returned it.
PlaceNodes ==
    /\ pc = "nodes"
    /\ pc' = "compose"
    /\ LET nodes == renderer_cfg.list
           anchors == PathAnchors(body)
       IN  IF nodes = <<>> \/ anchors = {} \/ "nodes" \in stage_faults
           THEN body' = body
           ELSE \E target \in [{nodes[j] : j \in 1..Len(nodes)} -> anchors] :
                  LET placed == { nodes[j] : j \in { i \in 1..Len(nodes) :
                                                       WithinLimit(nodes[i]) } }
                  IN  body' = Filter(<<>>, Inject(body, nodes, target), placed)
    /\ UNCHANGED <<call_vars, text_vars, trip_vars, sess_vars, inst_vars>>
    /\ UNCHANGED <<input, cfg, stage_faults, shape_blocks, detected_shapes,
                   processed_shapes, renderer_cfg, color_defs, output, outcome>>

\* ------------------------------------------------------------- composition
\* GlobalRenderer.compose_output: in classic mode the lines that start like
\* a preamble line are gathered ahead of the rest; in any other mode the
\* body follows the colour definitions as it is.
IsPreambleLine(line) == line.kind \in {"preamble", "note"}

compose_output(defs, lines, mode) ==
    LET head == IF defs THEN << TemplateLine("colordefs") >> ELSE <<>> IN
    IF mode = "classic"
    THEN head \o SelectSeq(lines, IsPreambleLine)
              \o SelectSeq(lines, LAMBDA l : ~IsPreambleLine(l))
    ELSE head \o lines

Compose ==
    /\ pc = "compose"
    /\ output' = compose_output(color_defs, body, cfg.mode)
    /\ outcome' = "output"
    /\ pc' = "done"
    /\ UNCHANGED <<call_vars, text_vars, trip_vars, sess_vars, inst_vars>>
    /\ UNCHANGED <<input, cfg, stage_faults, shape_blocks, detected_shapes,
                   processed_shapes, renderer_cfg, body, color_defs>>

Next ==
    \/ Parse
    \/ DetectAll
    \/ ProcessAll
    \/ Configure
    \/ Render
    \/ PostProcess
    \/ PlaceNodes
    \/ Compose

Spec == Init /\ [][Next]_vars

SpecEnv == InitEnv /\ [][Next]_vars

SpecOrder == InitOrder /\ [][Next]_vars

\* ------------------------------------------- one Converter, several calls
MaxSessionBlocks == 2

\* The blocks of the inputs handed to a reused Converter: shapes that are
\* rendered from their text or by a cached registry renderer, a shape whose
\* renderer raises, labels near and far.
SessionBlocks ==
    { [hint |-> "Straight Lines", body |-> "good",     fault |-> "none"],
      [hint |-> "Arc",            body |-> "good",     fault |-> "none"],
      [hint |-> "Arc",            body |-> "good",     fault |-> "render"],
      [hint |-> "Text Node",      body |-> "label",    fault |-> "none"],
      [hint |-> "Text Node",      body |-> "farlabel", fault |-> "none"] }

\* Inputs with at most one path, so that the path nearest to a label is
\* the same in every conversion of the input.
SessionDocuments ==
    { d \in UNION { [1..n -> SessionBlocks] : n \in 1..MaxSessionBlocks } :
        Cardinality({ k \in DOMAIN d : d[k].hint = "Straight Lines" }) <= 1 }

\* A caller converts an input with a new Converter, then a second input and
\* then the first one again with the same Converter.
InitSession ==
    /\ input \in SessionDocuments
    /\ \E other \in SessionDocuments : later = <<other, input>>
    /\ results = <<>>
    /\ cfg \in { DefaultConfig,
                  [mode |-> "obsidian", renderer_options |-> "dict",
                   nodes |-> [kind |-> "numeric", value |-> 45]] }
    /\ stage_faults = {}
    /\ pc = "parse"
    /\ shape_blocks = <<>>
    /\ detected_shapes = <<>>
    /\ processed_shapes = <<>>
    /\ renderer_cfg = NoNodesCfg
    /\ body = <<>>
    /\ color_defs = FALSE
    /\ output = <<>>
    /\ outcome = "none"
    /\ ConverterFresh
    /\ CallIdle
    /\ TextIdle
    /\ TripIdle

\* What a call of convert gave its caller: the output or the exception.
Returned == [outcome |-> outcome, output |-> output]

\* The caller calls convert again on the same Converter: the locals of
\* convert start anew, what the instance holds stays.
ConvertAgain ==
    /\ pc = "done"
    /\ later # <<>>
    /\ results' = Append(results, Returned)
    /\ input' = Head(later)
    /\ later' = Tail(later)
    /\ pc' = "parse"
    /\ shape_blocks' = <<>>
    /\ detected_shapes' = <<>>
    /\ processed_shapes' = <<>>
    /\ renderer_cfg' = NoNodesCfg
    /\ body' = <<>>
    /\ color_defs' = FALSE
    /\ output' = <<>>
    /\ outcome' = "none"
    /\ UNCHANGED <<cfg, stage_faults, inst_vars, text_vars, trip_vars, call_vars>>

NextSession ==
    \/ Parse
    \/ DetectAll
    \/ ProcessAll
    \/ Configure
    \/ Render
    \/ PostProcess
    \/ PlaceNodes
    \/ Compose
    \/ ConvertAgain

SpecSession == InitSession /\ [][NextSession]_vars

\* ================================================================= claims
Ran == pc \notin {"parse", "detect", "process"}

IdsOf(records) == [j \in 1..Len(records) |-> records[j].id]

\* C2: convert returns output only if at least one block was segmented, one
\* shape detected and one shape processed; with no block it raises
\* ParserError, with no detected shape DetectionError, with no processed
\* shape ProcessingError.
C2_GatedOutput ==
    /\ outcome = "output" =>
          /\ shape_blocks # <<>>
          /\ detected_shapes # <<>>
          /\ processed_shapes # <<>>
    /\ pc = "done" =>
          /\ shape_blocks = <<>> => outcome = "ParserError"
          /\ (shape_blocks # <<>> /\ detected_shapes = <<>>)
                => outcome = "DetectionError"
          /\ (detected_shapes # <<>> /\ processed_shapes = <<>>)
                => outcome = "ProcessingError"

C2_Witness ==
    /\ pc = "done"
    /\ outcome = "ProcessingError"
    /\ detected_shapes # <<>>
    /\ processed_shapes = <<>>

\* A block whose handling raises in one of the per-item try bodies: in
\* _parse_block, in detect, or in its processor (the inline renderer of the
\* straight, curve and ellipse processors included).
Raises(k) ==
    \/ input[k].fault \in {"parse", "detect", "proc"}
    \/ input[k].fault = "render" /\ input[k].hint # "Arc"

Survivors == SelectSeq(Ids(Len(input)), LAMBDA k : ~Raises(k))

\* C3: a block or shape whose parsing or processing raises is skipped and
\* every other one is still parsed and processed, in order; the conversion
\* succeeds as long as one shape survives (and the registry renderer of no
\* survivor fails).
C3_FaultIsolation ==
    /\ Ran => IdsOf(processed_shapes) = Survivors
    /\ ( /\ pc = "done"
         /\ Survivors # <<>>
         /\ \A k \in 1..Len(input) : input[k].fault # "render" \/ Raises(k) )
       => outcome = "output"

C3_Witness ==
    /\ pc = "done"
    /\ outcome = "output"
    /\ \E k \in 1..Len(input) : input[k].fault \in {"parse", "proc"}
    /\ processed_shapes # <<>>

\* C4, as claimed: a detected shape is never missing from a returned
\* output; when its processor raises, convert raises.
C4_NeverSilentlyMissing ==
    outcome = "output" =>
        \A j \in 1..Len(detected_shapes) :
            \E i \in 1..Len(processed_shapes) :
                processed_shapes[i].id = detected_shapes[j].id

\* C5, as claimed: a shape processor given a block with no main command,
\* too few points, a singular fit or degenerate parameters returns the raw
\* block text; it never emits a synthesized draw command.
DegradeBodies == {"nomain", "fewpoints", "singular", "degenerate"}

C5_SilentDegrade ==
    \A j \in 1..Len(processed_shapes) :
        input[processed_shapes[j].id].body \in DegradeBodies
            => processed_shapes[j].kind = "raw"

\* C7, as claimed: whenever the rendering of a shape fails, in a registry
\* renderer or in the inline renderer of a processor, convert raises
\* RenderingError.
C7_RenderFailureFatal ==
    ( /\ pc = "done"
      /\ \E j \in 1..Len(detected_shapes) :
            input[detected_shapes[j].id].fault = "render" )
    => outcome = "RenderingError"

\* The verbose style key a post-render stage rewrites.
VerboseKey(stage) ==
    CASE stage = "color"   -> "rgb"
      [] stage = "opacity" -> "opacity1"
      [] OTHER             -> "dashpattern"

StageApplied(stage, lines) ==
    \A j \in 1..Len(lines) : VerboseKey(stage) \notin lines[j].style

\* C6, as claimed: when exactly one post-render stage fails, convert still
\* returns output and every other style stage has run: no line of the
\* output keeps the verbose key that stage rewrites.
C6_PostFaultIsolation ==
    ( /\ pc = "done"
      /\ cfg.renderer_options # "notdict"
      /\ Cardinality(stage_faults) = 1 )
    => /\ outcome = "output"
       /\ \A stage \in {"color", "opacity", "dash"} \ stage_faults :
             StageApplied(stage, output)

\* A configuration with a value the program does not support.
InvalidConfig(c) ==
    \/ c.mode \notin {"classic", "obsidian"}
    \/ c.renderer_options = "notdict"
    \/ c.nodes.kind \in {"nonnumeric", "notdict"}

\* C8, as claimed: an invalid configuration value makes the conversion fail
\* with ConfigurationError.
C8_InvalidConfigFatal ==
    (pc = "done" /\ InvalidConfig(cfg)) => outcome = "ConfigurationError"

\* Position of a line in the input: its block, then annotation, leading
\* comment, statements.
KindRank(line) ==
    CASE line.kind = "annot" -> 1
      [] line.kind = "note"  -> 2
      [] OTHER               -> 3

Before(a, b) ==
    \/ a.owner < b.owner
    \/ a.owner = b.owner /\ KindRank(a) < KindRank(b)

ShapeLines(lines) == SelectSeq(lines, LAMBDA l : l.owner # 0)

InInputOrder(lines) ==
    \A i, j \in 1..Len(lines) : i < j => Before(lines[i], lines[j])

\* A shape whose whole output the label filter removes: a placed label.
Placed(k) ==
    /\ input[k].body \in Labels
    /\ \E j \in 1..Len(body) : \E i \in 1..Len(body[j].labels) :
          body[j].labels[i] = k

MaxLines == 4

UnknownCores == {"%Shape: Rectangle [id:1]"}
SupportedCores == {"%Straight Lines [id:2]"}
CommentCores == UnknownCores \cup SupportedCores \cup {"% note"}
CommandCores == {"\\draw (0,0) -- (1,1) ;"}
EndCores == {"\\end{tikzpicture}"}
ProseCores == {"prose"}

TextLine(lead, core, trail) == [lead |-> lead, core |-> core, trail |-> trail]

DocLines ==
    { TextLine(l, c, 0) : l \in {0, 1}, c \in UnknownCores }
    \cup { TextLine(0, c, 0) : c \in CommentCores \ UnknownCores }
    \cup { TextLine(l, c, 0) : l \in {0, 1}, c \in CommandCores }
    \cup { TextLine(0, c, 1) : c \in CommandCores }
    \cup { TextLine(0, c, 0) : c \in {""} \cup EndCores \cup ProseCores }

TextDocuments == UNION { [1..n -> DocLines] : n \in 1..MaxLines }

InitText ==
    /\ t_doc \in TextDocuments
    /\ t_pc = "parse"
    /\ t_raw = <<>>
    /\ t_blocks = <<>>
    /\ t_shapes = <<>>
    /\ t_results = <<>>
    /\ TripIdle
    /\ input = <<>>
    /\ cfg = DefaultConfig
    /\ stage_faults = {}
    /\ pc = "idle"
    /\ shape_blocks = <<>>
    /\ detected_shapes = <<>>
    /\ processed_shapes = <<>>
    /\ renderer_cfg = NoNodesCfg
    /\ body = <<>>
    /\ color_defs = FALSE
    /\ output = <<>>
    /\ outcome = "none"
    /\ ConverterFresh
    /\ CallIdle
    /\ SingleCall

\* str.strip() on one line.
LineStrip(line) == TextLine(0, line.core, 0)

IsBlankLine(line) == line.core = ""

RECURSIVE DropBlankHead(_)
DropBlankHead(ls) ==
    IF ls = <<>> THEN <<>>
    ELSE IF IsBlankLine(Head(ls)) THEN DropBlankHead(Tail(ls))
    ELSE ls

RECURSIVE DropBlankLast(_)
DropBlankLast(ls) ==
    IF ls = <<>> THEN <<>>
    ELSE IF IsBlankLine(ls[Len(ls)]) THEN DropBlankLast(SubSeq(ls, 1, Len(ls) - 1))
    ELSE ls

\* str.strip() on a text of several lines: the whitespace-only lines at
\* either end go, and so does the whitespace before the first remaining
\* line and after the last.
TextStrip(ls) ==
    LET kept == DropBlankLast(DropBlankHead(ls))
        n == Len(kept)
    IN  [j \in 1..n |->
            TextLine(IF j = 1 THEN 0 ELSE kept[j].lead,
                     kept[j].core,
                     IF j = n THEN 0 ELSE kept[j].trail)]

\* Parser._get_raw_blocks, lines 118-146: the stripped line starts with '%'
\* and names a supported type, carries "[id:" or is a "%Shape:" line.
OpensBlock(line) == line.core \in SupportedCores \cup UnknownCores

\* Variant: the end of the picture and other content do not close a block.
RawBlocksStep_NeverClose(st, line) ==
    IF OpensBlock(line)
    THEN [blocks |-> IF st.in_block /\ st.current # <<>>
                     THEN Append(st.blocks, st.current) ELSE st.blocks,
          current |-> <<line>>, in_block |-> TRUE]
    ELSE IF st.in_block
    THEN [st EXCEPT !.current = Append(st.current, line)]
    ELSE st

\* Parser._get_raw_blocks, one pass of the loop body.
RawBlocksStep(st, line) ==
    CASE OpensBlock(line) ->
            [blocks |-> IF st.in_block /\ st.current # <<>>
                        THEN Append(st.blocks, st.current) ELSE st.blocks,
             current |-> <<line>>, in_block |-> TRUE]
      [] line.core \in CommentCores /\ ~OpensBlock(line) ->
            IF st.in_block
            THEN [st EXCEPT !.current = Append(st.current, line)]
            ELSE st
      [] line.core \notin CommentCores /\ ~st.in_block -> st
      [] line.core \notin CommentCores /\ st.in_block ->
            IF line.core \in EndCores \cup ProseCores
            THEN [blocks |-> Append(st.blocks, st.current),
                  current |-> <<>>, in_block |-> FALSE]
            ELSE [st EXCEPT !.current = Append(st.current, line)]

RECURSIVE RawBlocksLoop(_, _)
RawBlocksLoop(st, lines) ==
    IF lines = <<>> THEN st
    ELSE RawBlocksLoop(RawBlocksStep(st, Head(lines)), Tail(lines))

\* Parser._get_raw_blocks.
_get_raw_blocks(lines) ==
    LET st == RawBlocksLoop([blocks |-> <<>>, current |-> <<>>,
                             in_block |-> FALSE], lines)
    IN  IF st.in_block /\ st.current # <<>>
        THEN Append(st.blocks, st.current) ELSE st.blocks

\* Parser._extract_shape_info followed by the candidates of
\* Detector._resolve_shape_type: the type text of an annotation line.
TypeText(annotation) ==
    CASE annotation.core = "%Shape: Rectangle [id:1]" -> "Rectangle"
      [] annotation.core = "%Straight Lines [id:2]" -> "Straight Lines"
      [] OTHER -> ""

\* Parser._parse_block.
_parse_block(block) ==
    LET lines == TextStrip(block) IN
    [annotation |-> LineStrip(lines[1]),
     raw_block |-> IF Len(lines) > 1 THEN TextStrip(Tail(lines)) ELSE <<>>]

\* Parser.parse and convert's check for an empty list.
TextParse ==
    /\ t_pc = "parse"
    /\ t_raw' = _get_raw_blocks(t_doc)
    /\ t_blocks' = [j \in 1..Len(t_raw') |-> _parse_block(t_raw'[j])]
    /\ t_pc' = IF t_blocks' = <<>> THEN "ParserError" ELSE "detect"
    /\ UNCHANGED <<t_doc, t_shapes, t_results>>
    /\ UNCHANGED <<pipe_vars, trip_vars, call_vars>>

\* Detector.detect on every block: one record per block.
TextDetect ==
    /\ t_pc = "detect"
    /\ t_shapes' = [j \in 1..Len(t_blocks) |->
            [shape_type |-> _resolve_shape_type(TypeText(t_blocks[j].annotation)),
             annotation |-> t_blocks[j].annotation,
             raw_block |-> t_blocks[j].raw_block]]
    /\ t_pc' = "process"
    /\ UNCHANGED <<t_doc, t_raw, t_blocks, t_results>>
    /\ UNCHANGED <<pipe_vars, trip_vars, call_vars>>

\* Variant: the body is re-emitted without the filter on annotation lines.
PassthroughProcess_NoFilter(annotation, raw_content) ==
    <<LineStrip(annotation)>> \o TextStrip(raw_content)

\* RawPassthroughProcessor.process: tikz_code.
PassthroughProcess(annotation, raw_content) ==
    LET annotation_stripped == LineStrip(annotation)
        filtered_lines == SelectSeq(raw_content,
                             LAMBDA line : LineStrip(line) # annotation_stripped)
    IN  <<annotation_stripped>> \o TextStrip(filtered_lines)

\* Processor.process: the class the registry returns is given
\* annotation + '\n' + raw_block, or raw_block alone when it is empty.
TextProcessOne(shape) ==
    LET cls == get_processor(shape.shape_type)
        full_block == IF shape.raw_block # <<>>
                      THEN <<shape.annotation>> \o shape.raw_block
                      ELSE shape.raw_block
    IN  [cls |-> cls,
         tikz_code |-> IF cls = "RawPassthroughProcessor"
                       THEN PassthroughProcess(shape.annotation, full_block)
                       ELSE <<>>]

\* convert's processing loop on the detected shapes.
TextProcess ==
    /\ t_pc = "process"
    /\ t_results' = [j \in 1..Len(t_shapes) |-> TextProcessOne(t_shapes[j])]
    /\ t_pc' = "done"
    /\ UNCHANGED <<t_doc, t_raw, t_blocks, t_shapes>>
    /\ UNCHANGED <<pipe_vars, trip_vars, call_vars>>

NextText ==
    \/ TextParse
    \/ TextDetect
    \/ TextProcess

SpecText == InitText /\ [][NextText]_vars

\* ------------------------------------------------------ claims on the text
\* The positions of the annotation lines of a document.
Openers(doc) == { p \in 1..Len(doc) : OpensBlock(doc[p]) }

\* The position of the i-th annotation line.
NthOpener(doc, i) ==
    CHOOSE p \in Openers(doc) :
        Cardinality({ q \in Openers(doc) : q <= p }) = i

\* The lines that follow the annotation at p up to the next annotation, the
\* end of the picture or a line that is not TikZ.
BodyOf(doc, p) ==
    LET stops == { q \in (p + 1)..Len(doc) :
                      \/ OpensBlock(doc[q])
                      \/ doc[q].core \in EndCores \cup ProseCores }
        last == IF stops = {} THEN Len(doc)
                ELSE (CHOOSE q \in stops : \A r \in stops : q <= r) - 1
    IN  SubSeq(doc, p + 1, last)

Occurrences(lines, annotation) ==
    Cardinality({ j \in 1..Len(lines) : LineStrip(lines[j]) = annotation })

UnknownAt(i) == t_doc[NthOpener(t_doc, i)].core \in UnknownCores

RawItems == {"color={rgb}", "color=red", "draw opacity=1", "draw opacity=0.5"}

ArrowDirections == {"", "<", ">"}

\* A style block as Mathcha writes it: "[item ,item ]", or nothing.
RECURSIVE RawItemsText(_)
RawItemsText(items) ==
    IF items = <<>> THEN <<>>
    ELSE <<Head(items), " ">>
         \o (IF Len(items) > 1 THEN <<",">> ELSE <<>>)
         \o RawItemsText(Tail(items))

RawStyle(items) ==
    IF items = <<>> THEN <<>> ELSE <<"[">> \o RawItemsText(items) \o <<"]">>

ItemLists ==
    { c \o o : c \in {<<>>, <<"color={rgb}">>, <<"color=red">>},
               o \in {<<>>, <<"draw opacity=1">>, <<"draw opacity=0.5">>} }

\* A block: the style of its main \draw command, the directions of the
\* arrowhead commands found at the start and the end of the segment ("" when
\* there is none), and the text of the path.
TripInputs ==
    { [style |-> RawStyle(items), start_arrow |-> s, end_arrow |-> e,
       path |-> "(0,0) -- (100,0) ;"] :
        items \in ItemLists, s \in ArrowDirections, e \in ArrowDirections }

InitTrip ==
    /\ r_in \in TripInputs
    /\ r_pc = "first"
    /\ r_first = <<>>
    /\ r_second = <<>>
    /\ TextIdle
    /\ input = <<>>
    /\ cfg = DefaultConfig
    /\ stage_faults = {}
    /\ pc = "idle"
    /\ shape_blocks = <<>>
    /\ detected_shapes = <<>>
    /\ processed_shapes = <<>>
    /\ renderer_cfg = NoNodesCfg
    /\ body = <<>>
    /\ color_defs = FALSE
    /\ output = <<>>
    /\ outcome = "none"
    /\ ConverterFresh
    /\ CallIdle
    /\ SingleCall

IsItem(ch) ==
    ch \in RawItems \cup {"color = {rgb}", "color = red", "color = black",
                         "draw opacity = 1", "draw opacity = 0.5"}

\* str.strip() on a sequence of characters.
RECURSIVE TrimLeft(_)
TrimLeft(cs) ==
    IF cs # <<>> /\ Head(cs) = " " THEN TrimLeft(Tail(cs)) ELSE cs

RECURSIVE TrimRight(_)
TrimRight(cs) ==
    IF cs # <<>> /\ cs[Len(cs)] = " "
    THEN TrimRight(SubSeq(cs, 1, Len(cs) - 1)) ELSE cs

Trim(cs) == TrimRight(TrimLeft(cs))

\* style_utils.split_style_parts: the top-level comma-separated parts,
\* stripped, the empty ones left out.
RECURSIVE SplitLoop(_, _, _)
SplitLoop(cs, current, parts) ==
    LET flush == IF Trim(current) = <<>> THEN parts
                 ELSE Append(parts, Trim(current))
    IN  IF cs = <<>> THEN flush
        ELSE IF Head(cs) = "," THEN SplitLoop(Tail(cs), <<>>, flush)
        ELSE SplitLoop(Tail(cs), Append(current, Head(cs)), parts)

split_style_parts(style_content) == SplitLoop(style_content, <<>>, <<>>)

\* ', '.join(parts).
RECURSIVE JoinParts(_)
JoinParts(parts) ==
    IF parts = <<>> THEN <<>>
    ELSE IF Len(parts) = 1 THEN Head(parts)
    ELSE Head(parts) \o <<",", " ">> \o JoinParts(Tail(parts))

Bracketed(cs) == cs # <<>> /\ Head(cs) = "[" /\ cs[Len(cs)] = "]"

Inside(cs) == SubSeq(cs, 2, Len(cs) - 1)

\* style_utils.parse_style_blocks finds a colour or an opacity in the block.
HasStyles(style_str) == \E j \in 1..Len(style_str) : IsItem(style_str[j])

\* style_utils.merge_style_str_with_dict.  The dictionary is read from the
\* same style block, so each of its keys is already present and nothing is
\* added: the block is split and joined again.
merge_style_str_with_dict(style_str, styles) ==
    IF ~styles THEN style_str
    ELSE LET content == IF Bracketed(style_str) THEN Inside(style_str)
                        ELSE style_str
             tokens == split_style_parts(content)
         IN  IF tokens = <<>> THEN <<>>
             ELSE <<"[">> \o JoinParts(tokens) \o <<"]">>

\* The number of blanks from position j on.
RECURSIVE Blanks(_, _)
Blanks(cs, j) ==
    IF j <= Len(cs) /\ cs[j] = " " THEN 1 + Blanks(cs, j + 1) ELSE 0

\* style_utils.ARROW_MARKER_PATTERN, ",?\s*[-<]?>", tried at position i: the
\* position after the match, or 0 when there is none.
ArrowMarkerMatch(cs, i) ==
    LET j == IF cs[i] = "," THEN i + 1 ELSE i
        k == j + Blanks(cs, j)
    IN  IF k + 1 <= Len(cs) /\ cs[k] \in {"-", "<"} /\ cs[k + 1] = ">"
        THEN k + 2
        ELSE IF k <= Len(cs) /\ cs[k] = ">" THEN k + 1
        ELSE 0

\* ARROW_MARKER_PATTERN.sub('', style_str).
RECURSIVE ArrowMarkerSub(_, _)
ArrowMarkerSub(cs, i) ==
    IF i > Len(cs) THEN <<>>
    ELSE IF ArrowMarkerMatch(cs, i) > 0
         THEN ArrowMarkerSub(cs, ArrowMarkerMatch(cs, i))
         ELSE <<cs[i]>> \o ArrowMarkerSub(cs, i + 1)

\* style_utils.apply_arrow_styles, without mid arrows.
apply_arrow_styles(style_str, start_arrow, end_arrow) ==
    LET stripped == ArrowMarkerSub(style_str, 1)
        arrow_style ==
            IF start_arrow # "" /\ end_arrow # ""
            THEN <<start_arrow, "-", end_arrow>>
            ELSE IF start_arrow # "" THEN <<start_arrow, "-">>
            ELSE IF end_arrow # "" THEN <<"-", end_arrow>>
            ELSE <<>>
    IN  IF arrow_style = <<>> THEN stripped
        ELSE IF stripped = <<>> THEN <<"[">> \o arrow_style \o <<"]">>
        ELSE IF stripped[Len(stripped)] = "]"
             THEN SubSeq(stripped, 1, Len(stripped) - 1)
                  \o <<",", " ">> \o arrow_style \o <<"]">>
        ELSE <<"[">> \o stripped \o <<",", " ">> \o arrow_style \o <<"]">>

\* StraightRenderer.render, line 50.
arrow_tokens ==
    { <<"-", ">">>, <<">", "-">>, <<"-", "<">>, <<"<", "-">>,
      <<"<", "-", ">">>, <<"<", "<", "-">>, <<"-", ">", ">">>,
      <<">", "-", ">">>, <<"<", "-", "<">>, <<"<", "-", ">", ">">>,
      <<"<", "<", ">", ">">> }

\* StraightRenderer.render, lines 57-71: "key=value" becomes "key = value".
KeyValue(ch) ==
    CASE ch = "color={rgb}"      -> "color = {rgb}"
      [] ch = "color=red"        -> "color = red"
      [] ch = "draw opacity=1"   -> "draw opacity = 1"
      [] ch = "draw opacity=0.5" -> "draw opacity = 0.5"
      [] OTHER                   -> ch

\* StraightRenderer.render, lines 55-77: arrow tokens move to the front.
RECURSIVE RebuildParts(_, _)
RebuildParts(styles, rebuilt_parts) ==
    IF styles = <<>> THEN rebuilt_parts
    ELSE LET style == Head(styles) IN
         IF \E j \in 1..Len(style) : IsItem(style[j])
         THEN RebuildParts(Tail(styles),
                  Append(rebuilt_parts,
                         [j \in 1..Len(style) |-> KeyValue(style[j])]))
         ELSE IF style \in arrow_tokens
         THEN RebuildParts(Tail(styles), <<style>> \o rebuilt_parts)
         ELSE RebuildParts(Tail(styles), Append(rebuilt_parts, style))

\* StraightRenderer.render, lines 31-81: the style block of the command.
RenderStyle(style_str, start_arrow, end_arrow) ==
    LET merged == merge_style_str_with_dict(style_str, HasStyles(style_str))
        arrowed == apply_arrow_styles(merged, start_arrow, end_arrow)
    IN  IF Bracketed(arrowed)
        THEN LET parts == RebuildParts(split_style_parts(Inside(arrowed)), <<>>)
             IN  IF parts = <<>> THEN <<>>
                 ELSE <<"[">> \o JoinParts(parts) \o <<"]">>
        ELSE arrowed

\* path_builder.build_line_coords with BaseRenderer._format_point.
build_line_coords(path) ==
    IF path \in {"(0,0) -- (100,0) ;", "(0, 0) -- (100, 0);"}
    THEN "(0, 0) -- (100, 0);"
    ELSE path

\* ColorPostProcessor.process: RGB literals become named colours and get a
\* definition; without an RGB literal there are no definitions.
ColorPost(style_str) ==
    [color_definitions |-> \E j \in 1..Len(style_str) :
                               style_str[j] = "color = {rgb}",
     processed_code |-> [j \in 1..Len(style_str) |->
                            IF style_str[j] = "color = {rgb}"
                            THEN "color = black" ELSE style_str[j]]]

\* OpacityPostProcessor.process: "draw opacity = 1" items are dropped, and
\* so is a style block left empty.
OpacityPost(style_str) ==
    IF ~Bracketed(style_str) THEN style_str
    ELSE LET items == split_style_parts(Inside(style_str))
             kept == SelectSeq(items,
                        LAMBDA it : it # <<"draw opacity = 1">>)
         IN  IF kept = items THEN style_str
             ELSE IF kept = <<>> THEN <<>>
             ELSE <<"[">> \o JoinParts(kept) \o <<"]">>

\* Converter.convert on a document holding the block x: whether colour
\* definitions head the output, and the \draw command of the body.
ConvertStraight(x) ==
    LET rendered == RenderStyle(x.style, x.start_arrow, x.end_arrow)
        coloured == ColorPost(rendered)
    IN  [color_definitions |-> coloured.color_definitions,
         style |-> OpacityPost(coloured.processed_code),
         path |-> build_line_coords(x.path)]

\* The output of convert read as an input: the colour definitions stand
\* before \begin{tikzpicture}, outside every block, so Parser._get_raw_blocks
\* passes over them; the block has no arrowhead commands.
AsInput(out) ==
    [style |-> out.style, start_arrow |-> "", end_arrow |-> "",
     path |-> out.path]

ConvertFirst ==
    /\ r_pc = "first"
    /\ r_first' = ConvertStraight(r_in)
    /\ r_pc' = "second"
    /\ UNCHANGED <<r_in, r_second>>
    /\ UNCHANGED <<pipe_vars, text_vars, call_vars>>

ConvertSecond ==
    /\ r_pc = "second"
    /\ r_second' = ConvertStraight(AsInput(r_first))
    /\ r_pc' = "done"
    /\ UNCHANGED <<r_in, r_first>>
    /\ UNCHANGED <<pipe_vars, text_vars, call_vars>>

NextTrip ==
    \/ ConvertFirst
    \/ ConvertSecond

SpecTrip == InitTrip /\ [][NextTrip]_vars

\* ------------------------------------------------- claims on the round trip
\* C1 (as stated): converting the output of a conversion again gives the
\* same output: the same colour-definition lines and the same command,
\* arrow markers included.
C1_RoundTripIdempotent ==
    r_pc = "done" => r_second = r_first

\* C20: the segmenter returns one block per annotation line, in input
\* order; a block is its annotation line followed by the lines up to the
\* next annotation line, the first \end{tikzpicture} line or the first line
\* with other content, all unchanged; the lines outside these runs are in
\* no block.
C20_OneBlockPerOpener ==
    t_pc # "parse" =>
        /\ Len(t_raw) = Cardinality(Openers(t_doc))
        /\ \A i \in 1..Len(t_raw) :
              LET p == NthOpener(t_doc, i)
              IN  t_raw[i] = <<t_doc[p]>> \o BodyOf(t_doc, p)

\* C20: two blocks were cut, the first closed by the end of the picture,
\* and a line between them was discarded.
C20_Witness ==
    /\ t_pc # "parse"
    /\ Len(t_raw) = 2
    /\ Len(t_doc) = 4
    /\ t_doc[2].core \in EndCores
    /\ ~OpensBlock(t_doc[3])
    /\ Len(t_raw[1]) = 1

\* ------------------------------------------------------ claims on the ids
\* The lines of the returned text that came from block k, the empty line of
\* an empty tikz_code and the lines moved to the preamble left aside.
OutputOf(k) ==
    SelectSeq(output, LAMBDA l : l.owner = k /\ l.kind # "blank"
                                  /\ ~(cfg.mode = "classic" /\ IsPreambleLine(l)))

\* C11 (as stated): whenever a block has lines in the returned text, the
\* first of them is its annotation comment, which carries the id of the
\* block, and no other line of the block is an annotation comment.
C11_IdHeaderFirst ==
    outcome = "output" =>
        \A k \in 1..Len(input) :
            OutputOf(k) # <<>> =>
                /\ OutputOf(k)[1].kind = "annot"
                /\ \A j \in 2..Len(OutputOf(k)) : OutputOf(k)[j].kind # "annot"

\* ---------------------------------------------------- claims on the nodes
\* Where the label of block k stands in the returned text: as a line of its
\* own, and spliced into a draw line.
StandaloneAt(k) ==
    { j \in 1..Len(output) : output[j].kind = "label" /\ output[j].owner = k }

SplicedAt(k) ==
    { <<j, i>> \in (1..Len(output)) \X (1..Len(input)) :
         i <= Len(output[j].labels) /\ output[j].labels[i] = k }

DefaultMaxDistance == 30

\* C18 (as stated): under the default limit every label of the input is in
\* the returned text exactly once: spliced into one draw line, with no line
\* of its own left, when an anchor lies within the limit; as its own line,
\* spliced nowhere, when none does.
C18_LabelExactlyOnce ==
    outcome = "output" =>
        \A k \in 1..Len(input) :
            input[k].body \in LabelBodies =>
                IF PathAnchors(output) # {} /\ Distance(k) <= DefaultMaxDistance
                THEN Cardinality(SplicedAt(k)) = 1 /\ StandaloneAt(k) = {}
                ELSE Cardinality(StandaloneAt(k)) = 1 /\ SplicedAt(k) = {}
\* ---------------------------------------------------------------- C19
\* C19: convert keeps nothing from one call to the next: when a Converter
\* that has already converted other inputs converts an input again, the
\* caller gets what a new Converter gave for that input (the same output or
\* the same exception), and no step of convert changes the configuration
\* the caller handed in.
C19_StatelessConvert ==
    /\ [](pc = "done" /\ Len(results) = 2 => Returned = results[1])
    /\ [][cfg' = cfg]_vars

\* A third call returns an output while the renderer still holds the arc
\* renderer and the result of the second call was another one.
C19_Witness ==
    /\ pc = "done"
    /\ Len(results) = 2
    /\ outcome = "output"
    /\ results[2] # results[1]
    /\ renderers_cache = {"arc"}
    /\ \A k \in 1..Len(input) : input[k].hint # "Arc"
    /\ renderer_config.list # <<>>

\* ======================================================= colour search
\* ColorKDTree on its own: a palette is built into a tree, then queried.
MaxPalette == 4

\* The colours a palette entry can have: black, red, green, blue, yellow
\* and white, on a scale on which a query can lie between two of them.
PaletteColours ==
    { <<0, 0, 0>>, <<2, 0, 0>>, <<0, 2, 0>>, <<0, 0, 2>>, <<2, 2, 0>>,
      <<2, 2, 2>> }

QueryChannels == {0, 1, 2}

\* The palette handed to ColorKDTree(colors), in the order of the dict: the
\* names are the positions, two names may have the same colour.
Palettes == UNION { [1..n -> PaletteColours] : n \in 1..MaxPalette }

InitColor ==
    /\ f_pc = "build"
    /\ f_in \in [colors : Palettes, target_rgb : [1..3 -> QueryChannels]]
    /\ f_obj = <<>>
    /\ f_out = <<>>
    /\ input = <<>>
    /\ cfg = DefaultConfig
    /\ stage_faults = {}
    /\ pc = "idle"
    /\ shape_blocks = <<>>
    /\ detected_shapes = <<>>
    /\ processed_shapes = <<>>
    /\ renderer_cfg = NoNodesCfg
    /\ body = <<>>
    /\ color_defs = FALSE
    /\ output = <<>>
    /\ outcome = "none"
    /\ ConverterFresh
    /\ SingleCall
    /\ TextIdle
    /\ TripIdle

\* points.sort(key=lambda x: x[1][axis]): a stable sort, by insertion.
RECURSIVE InsertByAxis(_, _, _)
InsertByAxis(sorted, pt, axis) ==
    IF sorted = <<>> THEN << pt >>
    ELSE LET last == sorted[Len(sorted)] IN
         IF last.rgb[axis] <= pt.rgb[axis]
         THEN Append(sorted, pt)
         ELSE Append(InsertByAxis(SubSeq(sorted, 1, Len(sorted) - 1), pt, axis),
                     last)

RECURSIVE SortByAxis(_, _)
SortByAxis(points, axis) ==
    IF points = <<>> THEN <<>>
    ELSE InsertByAxis(SortByAxis(SubSeq(points, 1, Len(points) - 1), axis),
                      points[Len(points)], axis)

\* No node.
NoNode == [nil |-> TRUE]

\* ColorKDTree._build_recursive: the axis cycles with the depth (here 1, 2,
\* 3 for R, G, B), the median of the sorted points is the node, the points
\* before it go left, the points after it go right.
RECURSIVE _build_recursive(_, _)
_build_recursive(points, depth) ==
    IF points = <<>> THEN NoNode
    ELSE LET axis == (depth % 3) + 1
             sorted == SortByAxis(points, axis)
             median_idx == (Len(sorted) \div 2) + 1
         IN  [nil   |-> FALSE,
              name  |-> sorted[median_idx].name,
              rgb   |-> sorted[median_idx].rgb,
              left  |-> _build_recursive(SubSeq(sorted, 1, median_idx - 1),
                                         depth + 1),
              right |-> _build_recursive(SubSeq(sorted, median_idx + 1,
                                                Len(sorted)), depth + 1)]

\* ColorKDTree._build_tree: the entries of the dict, in its order.
_build_tree(colors) ==
    _build_recursive([k \in 1..Len(colors) |-> [name |-> k, rgb |-> colors[k]]],
                     0)

Square(x) == x * x

\* ColorKDTree._rgb_distance, squared: the norm is only ever compared, and
\* squaring keeps the order of non-negative numbers.
DistanceSq(a, b) ==
    Square(a[1] - b[1]) + Square(a[2] - b[2]) + Square(a[3] - b[3])

\* best_distance = inf, best_name = None
NoBest == [name |-> 0, dist |-> -1]

\* current_distance < best_distance
Closer(d, best) == best.dist = -1 \/ d < best.dist

\* Variant: the far subtree is never searched.
SearchSecond_Never(axis_gap, best) == FALSE

\* find_nearest, lines 144-145: the far subtree is searched when the gap
\* along the axis is smaller than the best distance.
SearchSecond(axis_gap, best) == Closer(Square(axis_gap), best)

\* find_nearest.search_recursive, returning (best_name, best_distance).
RECURSIVE search_recursive(_, _, _, _)
search_recursive(node, depth, target_rgb, best) ==
    IF node.nil THEN best
    ELSE LET current == DistanceSq(target_rgb, node.rgb)
             best1 == IF Closer(current, best)
                      THEN [name |-> node.name, dist |-> current]
                      ELSE best
             axis == (depth % 3) + 1
             goLeft == target_rgb[axis] < node.rgb[axis]
             first_subtree == IF goLeft THEN node.left ELSE node.right
             second_subtree == IF goLeft THEN node.right ELSE node.left
             best2 == search_recursive(first_subtree, depth + 1, target_rgb,
                                       best1)
             gap == IF target_rgb[axis] < node.rgb[axis]
                    THEN node.rgb[axis] - target_rgb[axis]
                    ELSE target_rgb[axis] - node.rgb[axis]
         IN  IF SearchSecond(gap, best2)
             THEN search_recursive(second_subtree, depth + 1, target_rgb, best2)
             ELSE best2

\* ColorKDTree.find_nearest
find_nearest(root, target_rgb) ==
    IF root.nil THEN NoBest
    ELSE search_recursive(root, 0, target_rgb, NoBest)

\* ColorKDTree.__init__
BuildTree ==
    /\ f_pc = "build"
    /\ f_obj' = _build_tree(f_in.colors)
    /\ f_pc' = "search"
    /\ UNCHANGED <<f_in, f_out, pipe_vars, text_vars, trip_vars>>

\* ColorPostProcessor._convert_rgb_to_named -> kdtree.find_nearest
FindNearest ==
    /\ f_pc = "search"
    /\ f_out' = find_nearest(f_obj, f_in.target_rgb)
    /\ f_pc' = "done"
    /\ UNCHANGED <<f_in, f_obj, pipe_vars, text_vars, trip_vars>>

NextColor ==
    \/ BuildTree
    \/ FindNearest

SpecColor == InitColor /\ [][NextColor]_vars

\* ---------------------------------------------------------------- C13
\* The smallest distance of the query to a palette colour, by linear scan.
BruteForce(colors, target_rgb) ==
    CHOOSE d \in { DistanceSq(target_rgb, colors[k]) : k \in 1..Len(colors) } :
        \A k \in 1..Len(colors) : d <= DistanceSq(target_rgb, colors[k])

\* C13: for every non-empty palette and every query the tree search returns
\* a name of the palette, never none, and the colour of that name is as near
\* to the query as the nearest colour a linear scan of the palette finds.
C13_NearestAsBruteForce ==
    f_pc = "done" =>
        /\ f_out.name \in 1..Len(f_in.colors)
        /\ DistanceSq(f_in.target_rgb, f_in.colors[f_out.name])
             = BruteForce(f_in.colors, f_in.target_rgb)
        /\ f_out.dist = BruteForce(f_in.colors, f_in.target_rgb)

\* The nearest colour lies in the subtree the search visits second: the
\* query is left of the root on the red axis, the result is right of it.
C13_Witness ==
    /\ f_pc = "done"
    /\ Len(f_in.colors) = 4
    /\ f_in.target_rgb[1] < f_obj.rgb[1]
    /\ f_out.name # f_obj.name
    /\ ~f_obj.right.nil
    /\ f_out.name = f_obj.right.name
    /\ ~f_obj.left.left.nil

\* ---------------------------------------------------------------- C12
\* The entries of the palette that have exactly the queried colour.
Exact == { k \in 1..Len(f_in.colors) : f_in.colors[k] = f_in.target_rgb }

\* C12 as stated: for every entry of the palette, a query with exactly its
\* colour returns exactly that entry's name, at distance zero.
C12_ExactEntryName ==
    f_pc = "done" => \A k \in Exact : f_out.name = k /\ f_out.dist = 0

\* C12, amended: a query with exactly the colour of a palette entry returns,
\* at distance zero, the name of an entry that has this colour; it is that
\* entry's own name whenever no other entry has the same colour.
C12_ExactEntryColour ==
    (f_pc = "done" /\ Exact # {}) =>
        /\ f_out.dist = 0
        /\ f_out.name \in Exact
        /\ \A k \in Exact : Exact = {k} => f_out.name = k

\* The queried colour is the colour of one entry only, and that entry is
\* neither the root nor on the side searched first at the root.
C12_Witness ==
    /\ f_pc = "done"
    /\ Cardinality(Exact) = 1
    /\ Len(f_in.colors) = 4
    /\ f_out.name \in Exact
    /\ ~f_obj.left.nil
    /\ f_out.name = f_obj.left.name
    /\ f_in.target_rgb[1] = f_obj.rgb[1]

\* ======================================================== colour stage
\* ColorPostProcessor.process on its own.  The rendered text is the list of
\* its colour tokens; what lies between them is left alone by the stage.
MaxTokens == 2

\* How the literal stands in the text: after "color=", after "fill=", or on
\* its own.
TokenForms == {"color", "fill", "bare"}

\* The whitespace of a literal: as build_rgb_spec_int writes it
\* "{rgb, 255:red, R; green, G; blue, B}", the same with a blank before the
\* closing brace, or without any blanks.
Spacings == {"canonical", "trailing", "compact"}

\* The colours of the literals: black, a dark red, red.
LiteralColours == { <<0, 0, 0>>, <<1, 0, 0>>, <<2, 0, 0>> }

\* COLOR_DEFINITIONS as ColorPostProcessor hands it to the tree.
StagePalette == << <<0, 0, 0>>, <<2, 0, 0>>, <<0, 0, 2>> >>

\* An RGB literal of the text.
Literals == [form : TokenForms, shape : Spacings, value : LiteralColours]

InitPaint ==
    /\ f_pc = "process"
    /\ f_in \in UNION { [1..n -> Literals] : n \in 1..MaxTokens }
    /\ f_obj = <<>>
    /\ f_out = <<>>
    /\ input = <<>>
    /\ cfg = DefaultConfig
    /\ stage_faults = {}
    /\ pc = "idle"
    /\ shape_blocks = <<>>
    /\ detected_shapes = <<>>
    /\ processed_shapes = <<>>
    /\ renderer_cfg = NoNodesCfg
    /\ body = <<>>
    /\ color_defs = FALSE
    /\ output = <<>>
    /\ outcome = "none"
    /\ ConverterFresh
    /\ SingleCall
    /\ TextIdle
    /\ TripIdle

\* ColorPostProcessor._find_rgb_colors: the keys of rgb_colors.  The three
\* patterns allow any whitespace inside a literal; the key stored for a
\* match is the canonical text of its colour, and for a match of the
\* color= pattern also the canonical text with a blank before the brace.
\* RGB_PATTERN matches the braces of every literal, whatever stands before.
_find_rgb_colors(tikz_code) ==
    { [shape |-> "canonical", value |-> tikz_code[j].value] :
          j \in 1..Len(tikz_code) }
    \cup
    { [shape |-> "trailing", value |-> tikz_code[j].value] :
          j \in { h \in 1..Len(tikz_code) : tikz_code[h].form = "color" } }

\* ColorPostProcessor._convert_rgb_to_named
_convert_rgb_to_named(rgb_tuple) ==
    find_nearest(_build_tree(StagePalette), rgb_tuple).name

\* ColorPostProcessor._replace_colors_in_code: str.replace of each key of
\* color_conversions, so a literal is replaced when its exact text is a key.
_replace_colors_in_code(tikz_code, specs) ==
    [j \in 1..Len(tikz_code) |->
        LET t == tikz_code[j] IN
        IF [shape |-> t.shape, value |-> t.value] \in specs
        THEN [form |-> t.form, shape |-> "name",
              value |-> _convert_rgb_to_named(t.value)]
        ELSE t]

\* ColorPostProcessor.process, lines 92-110: every key is converted and its
\* name is added to used_colors; _generate_color_definitions then writes a
\* definition for each used name found in COLOR_DEFINITIONS.
ColorProcess ==
    /\ f_pc = "process"
    /\ LET rgb_colors == _find_rgb_colors(f_in)
           used_colors == { _convert_rgb_to_named(sp.value) : sp \in rgb_colors }
       IN  /\ f_obj' = [rgb_colors |-> rgb_colors, used_colors |-> used_colors]
           /\ f_out' = [processed_code |->
                            _replace_colors_in_code(f_in, rgb_colors),
                        color_definitions |->
                            used_colors \cap (1..Len(StagePalette))]
    /\ f_pc' = "done"
    /\ UNCHANGED <<f_in, pipe_vars, text_vars, trip_vars>>

NextPaint == ColorProcess

SpecPaint == InitPaint /\ [][NextPaint]_vars

\* ---------------------------------------------------------------- C14
\* C14 as stated: every RGB literal the colour stage discovers through one
\* of its three patterns, whatever its whitespace, is replaced by its
\* nearest named colour, so no discovered literal remains in the body, and
\* a colour definition is emitted only for a name that occurs in the body.
C14_LiteralsReplaced ==
    f_pc = "done" =>
        /\ \A j \in 1..Len(f_in) :
              /\ f_out.processed_code[j].shape = "name"
              /\ f_out.processed_code[j].value = _convert_rgb_to_named(f_in[j].value)
        /\ \A n \in f_out.color_definitions :
              \E j \in 1..Len(f_in) :
                  /\ f_out.processed_code[j].shape = "name"
                  /\ f_out.processed_code[j].value = n

\* ========================================================== arc angles
\* normalize_arc_angles on its own.  Angles are in hundredths of a degree.
MaxEighths == 4

\* A degree, in hundredths.
Deg(x) == x * 100

\* Start and end angles: the multiples of 45 degrees up to half a turn
\* either way, which is the range parametric_angle returns, and beyond.
ArcAngles == { Deg(45) * k : k \in (0 - MaxEighths)..MaxEighths }

\* Rotations: none, a quarter turn, half a turn either way, and values just
\* inside and just outside the half-degree window around half a turn.
ArcRotations ==
    { 0, Deg(90), Deg(180), 0 - Deg(180), Deg(180) - 40, Deg(180) + 50,
      40 - Deg(180) }

InitAngles ==
    /\ f_pc = "normalize"
    /\ f_in \in [start_deg : ArcAngles, end_deg : ArcAngles,
                 rotation_deg : ArcRotations]
    /\ f_obj = <<>>
    /\ f_out = <<>>
    /\ input = <<>>
    /\ cfg = DefaultConfig
    /\ stage_faults = {}
    /\ pc = "idle"
    /\ shape_blocks = <<>>
    /\ detected_shapes = <<>>
    /\ processed_shapes = <<>>
    /\ renderer_cfg = NoNodesCfg
    /\ body = <<>>
    /\ color_defs = FALSE
    /\ output = <<>>
    /\ outcome = "none"
    /\ ConverterFresh
    /\ SingleCall
    /\ TextIdle
    /\ TripIdle

Abs(x) == IF x < 0 THEN 0 - x ELSE x

\* base_geometry.normalize_angle: angle % 360, which is never negative.
normalize_angle(angle_degrees) ==
    LET normalized == angle_degrees % Deg(360)
    IN  IF normalized >= 0 THEN normalized ELSE normalized + Deg(360)

\* abs(rotation_deg - 180) < 0.5 or abs(rotation_deg + 180) < 0.5
HalfTurn(rotation_deg) ==
    Abs(rotation_deg - Deg(180)) < 50 \/ Abs(rotation_deg + Deg(180)) < 50

\* point_path_operations.normalize_arc_angles
normalize_arc_angles(start_deg, end_deg, rotation_deg) ==
    LET half == HalfTurn(rotation_deg)
        rotation1 == IF half THEN 0 ELSE rotation_deg
        start1 == IF half THEN start_deg - Deg(180) ELSE start_deg
        end1 == IF half THEN end_deg - Deg(180) ELSE end_deg
        norm == normalize_angle(start1)
        start_norm == IF norm > Deg(180) /\ norm < Deg(360)
                      THEN norm - Deg(360) ELSE norm
        end2 == IF end1 < start_norm THEN end1 + Deg(360) ELSE end1
        end3 == IF Abs(end2 - start_norm - Deg(360)) < 10
                THEN start_norm + Deg(360) ELSE end2
    IN  [start |-> start_norm, end |-> end3, rotation |-> rotation1]

NormalizeArc ==
    /\ f_pc = "normalize"
    /\ f_out' = normalize_arc_angles(f_in.start_deg, f_in.end_deg,
                                     f_in.rotation_deg)
    /\ f_pc' = "done"
    /\ UNCHANGED <<f_in, f_obj, pipe_vars, text_vars, trip_vars>>

NextAngles == NormalizeArc

SpecAngles == InitAngles /\ [][NextAngles]_vars

\* ---------------------------------------------------------------- C15
\* C15 as stated: for all start, end and rotation values the returned end
\* is not smaller than the returned start and the start lies in (-180, 180];
\* a rotation within half a degree of +180 or -180 is returned as 0, with
\* both angles taken 180 degrees back before they are normalized.
C15_EndNotBeforeStart ==
    f_pc = "done" =>
        /\ f_out.end >= f_out.start
        /\ f_out.start > 0 - Deg(180)
        /\ f_out.start <= Deg(180)
        /\ HalfTurn(f_in.rotation_deg) =>
              /\ f_out.rotation = 0
              /\ (f_out.start - (f_in.start_deg - Deg(180))) % Deg(360) = 0
              /\ (f_out.end - (f_in.end_deg - Deg(180))) % Deg(360) = 0

\* ========================================================= dash stage
\* DashPatternPostProcessor on one style block.  The block is the list of
\* its comma-separated entries.
MaxItems == 3

\* What stands inside the braces of a dash pattern entry: two spellings of a
\* dictionary pattern, the doubled dictionary pattern, two spellings of a
\* pattern the dictionary does not have, and two texts without a pair.
DashTexts ==
    {"on 4.5pt off 4.5pt", "on 4.50pt  off 4.5pt",
     "on 4.5pt off 4.5pt on 4.5pt off 4.5pt",
     "on 5pt off 7pt", "ON 5PT OFF 7.0pt", "on 3pt", ""}

\* The entries of a style block: dash patterns, a named dash style that is
\* already there, and an entry of another kind.
StyleItems ==
    [key : {"dash pattern"}, value : DashTexts]
    \cup { [key |-> "dashed", value |-> ""], [key |-> "color", value |-> "red"] }

InitDash ==
    /\ f_pc = "dash"
    /\ f_in \in UNION { [1..n -> StyleItems] : n \in 1..MaxItems }
    /\ f_obj = <<>>
    /\ f_out = <<>>
    /\ input = <<>>
    /\ cfg = DefaultConfig
    /\ stage_faults = {}
    /\ pc = "idle"
    /\ shape_blocks = <<>>
    /\ detected_shapes = <<>>
    /\ processed_shapes = <<>>
    /\ renderer_cfg = NoNodesCfg
    /\ body = <<>>
    /\ color_defs = FALSE
    /\ output = <<>>
    /\ outcome = "none"
    /\ ConverterFresh
    /\ SingleCall
    /\ TextIdle
    /\ TripIdle

\* dash_utils.DASH_PATTERNS, the keys met here.
DASH_PATTERNS ==
    [k \in {"on 4.5pt off 4.5pt", "on 4.5pt off 4.5pt on 4.5pt off 4.5pt"}
        |-> "dashed"]

\* dash_utils.normalize_pattern_content: the on/off pairs PAIR_RE finds,
\* written again with single blanks, lower case and %g numbers; a text
\* without a pair gives the empty string and no pairs.
normalize_pattern_content(content) ==
    CASE content = "on 4.50pt  off 4.5pt" -> "on 4.5pt off 4.5pt"
      [] content = "ON 5PT OFF 7.0pt"     -> "on 5pt off 7pt"
      [] content = "on 3pt"               -> ""
      [] OTHER                            -> content

\* The positions DASH_KV_RE finds in the block.
DashMatches(style_content) ==
    { j \in 1..Len(style_content) : style_content[j].key = "dash pattern" }

\* Variant: no entry is cut out of the block.
WithoutItems_None(style_content, drop) == style_content

\* style_content[:m.start()] + style_content[m.end():] for the entries at
\* the given positions.
WithoutItems(style_content, drop) ==
    SelectSeq([j \in 1..Len(style_content) |->
                  IF j \in drop THEN [key |-> "", value |-> ""]
                                ELSE style_content[j]],
              LAMBDA it : it.key # "")

\* DashPatternPostProcessor._dedupe_and_convert_in_style
_dedupe_and_convert_in_style(style_content) ==
    LET matches == DashMatches(style_content) IN
    IF matches = {} THEN style_content
    ELSE LET first == CHOOSE j \in matches : \A h \in matches : j <= h
             normalized == normalize_pattern_content(style_content[first].value)
             parts == WithoutItems(style_content, matches)
         IN  IF normalized = ""
             THEN parts
             ELSE IF normalized \in DOMAIN DASH_PATTERNS
             THEN LET mapped_name == [key |-> DASH_PATTERNS[normalized],
                                      value |-> ""]
                  IN  IF \E j \in 1..Len(parts) : parts[j] = mapped_name
                      THEN parts
                      ELSE Append(parts, mapped_name)
             ELSE [j \in 1..Len(WithoutItems(style_content, matches \ {first}))
                     |-> LET it == WithoutItems(style_content,
                                                matches \ {first})[j]
                         IN  IF it.key = "dash pattern"
                             THEN [key |-> "dash pattern", value |-> normalized]
                             ELSE it]

\* DashPatternPostProcessor.process, for one style block.
DashProcess ==
    /\ f_pc = "dash"
    /\ f_out' = _dedupe_and_convert_in_style(f_in)
    /\ f_pc' = "done"
    /\ UNCHANGED <<f_in, f_obj, pipe_vars, text_vars, trip_vars>>

NextDash == DashProcess

SpecDash == InitDash /\ [][NextDash]_vars

\* ---------------------------------------------------------------- C16
\* How often an entry with this key stands in the block.
CountKey(style_content, key) ==
    Cardinality({ j \in 1..Len(style_content) : style_content[j].key = key })

\* The normalized text of the first dash pattern of the input block.
FirstNormalized ==
    normalize_pattern_content(
        f_in[CHOOSE j \in DashMatches(f_in) :
                \A h \in DashMatches(f_in) : j <= h].value)

\* C16 as stated: after dash canonicalization a style block has at most one
\* dash pattern entry, the first of the input; if its normalized text is a
\* dictionary key, no dash pattern entry remains and the mapped named token
\* occurs exactly once; otherwise the one dash pattern is kept, normalized.
C16_FirstDashOnly ==
    (f_pc = "done" /\ DashMatches(f_in) # {}) =>
        IF FirstNormalized \in DOMAIN DASH_PATTERNS
        THEN /\ DashMatches(f_out) = {}
             /\ CountKey(f_out, DASH_PATTERNS[FirstNormalized]) = 1
        ELSE /\ CountKey(f_out, "dash pattern") = 1
             /\ \A j \in DashMatches(f_out) : f_out[j].value = FirstNormalized

\* C16, amended: a block has at most one dash pattern entry after the
\* stage, and it comes from the first of the input.  A first entry without
\* any on/off pair is removed and no dash pattern remains; if its
\* normalized text is a dictionary key, no dash pattern remains and the
\* mapped named token is in the block, added once unless the block had it
\* already (as often as it had it); otherwise the one dash pattern is kept,
\* normalized.
C16_FirstDashCanonical ==
    (f_pc = "done" /\ DashMatches(f_in) # {}) =>
        IF FirstNormalized = ""
        THEN DashMatches(f_out) = {}
        ELSE IF FirstNormalized \in DOMAIN DASH_PATTERNS
        THEN /\ DashMatches(f_out) = {}
             /\ LET name == DASH_PATTERNS[FirstNormalized] IN
                CountKey(f_out, name) =
                    IF CountKey(f_in, name) = 0 THEN 1 ELSE CountKey(f_in, name)
        ELSE /\ CountKey(f_out, "dash pattern") = 1
             /\ \A j \in DashMatches(f_out) : f_out[j].value = FirstNormalized

\* Two dash patterns in a block, the first a dictionary pattern in another
\* spelling: one named token is all that is left of them.
C16_Witness ==
    /\ f_pc = "done"
    /\ Cardinality(DashMatches(f_in)) = 2
    /\ FirstNormalized \in DOMAIN DASH_PATTERNS
    /\ \E j \in DashMatches(f_in) : f_in[j].value = "on 4.50pt  off 4.5pt"
                                    /\ \A h \in DashMatches(f_in) : j <= h
    /\ CountKey(f_in, "dashed") = 0
    /\ CountKey(f_out, "dashed") = 1
    /\ DashMatches(f_out) = {}

\* ====================================================== opacity stage
\* OpacityPostProcessor.process on one command with its style blocks.
MaxOpacityItems == 2

\* The entries of a style block, as far as this stage tells them apart.
OpacityItems ==
    {"draw opacity=1", "draw opacity=0.5", "opacity=1", "fill opacity=0.5",
     "color=red"}

\* A style block [...] is the list of its entries; [] is the empty list.
StyleBlocks == UNION { [1..n -> OpacityItems] : n \in 0..MaxOpacityItems }

\* A command with one style block or with two, one after the other.
StyledCommands ==
    [cmd : {"\\draw", "\\fill"},
     styles : { << a >> : a \in StyleBlocks }
              \cup { << a, b >> : a \in StyleBlocks, b \in StyleBlocks }]

InitOpacity ==
    /\ f_pc = "opacity"
    /\ f_in \in StyledCommands
    /\ f_obj = <<>>
    /\ f_out = <<>>
    /\ input = <<>>
    /\ cfg = DefaultConfig
    /\ stage_faults = {}
    /\ pc = "idle"
    /\ shape_blocks = <<>>
    /\ detected_shapes = <<>>
    /\ processed_shapes = <<>>
    /\ renderer_cfg = NoNodesCfg
    /\ body = <<>>
    /\ color_defs = FALSE
    /\ output = <<>>
    /\ outcome = "none"
    /\ ConverterFresh
    /\ SingleCall
    /\ TextIdle
    /\ TripIdle

\* OPACITY_ITEM_RE with the test of line 55: an entry "draw opacity=<v>"
\* whose value is 1.
UnitDrawOpacity(item) == item = "draw opacity=1"

\* process.repl_draw, lines 43-73: the entries OPACITY_ITEM_RE matches with
\* the value 1 are cut out of the block, the others stay.
repl_inside(inside) == SelectSeq(inside, LAMBDA item : ~UnitDrawOpacity(item))

\* OpacityPostProcessor.process: DRAW_CMD_RE takes the style block that
\* follows \draw directly, and no other; a block left empty is dropped
\* (lines 78-81), and every "[]" of the text is removed at the end (line 92).
OpacityOnCommand(command) ==
    LET styles1 == IF command.cmd = "\\draw"
                   THEN [command.styles EXCEPT ![1] = repl_inside(@)]
                   ELSE command.styles
    IN  [cmd |-> command.cmd,
         styles |-> SelectSeq(styles1, LAMBDA blk : blk # <<>>)]

OpacityProcess ==
    /\ f_pc = "opacity"
    /\ f_out' = OpacityOnCommand(f_in)
    /\ f_pc' = "done"
    /\ UNCHANGED <<f_in, f_obj, pipe_vars, text_vars, trip_vars>>

NextOpacity == OpacityProcess

SpecOpacity == InitOpacity /\ [][NextOpacity]_vars

\* ---------------------------------------------------------------- C17
\* The entries of all style blocks of a command, in order.
RECURSIVE AllItems(_)
AllItems(styles) ==
    IF styles = <<>> THEN <<>> ELSE Head(styles) \o AllItems(Tail(styles))

\* C17 as stated: after opacity normalization no style block holds a
\* 'draw opacity=1' or a bare 'opacity=1' token, every opacity token with
\* another value is kept with its value, and no empty style block remains.
C17_NoUnitOpacity ==
    f_pc = "done" =>
        /\ \A j \in 1..Len(AllItems(f_out.styles)) :
              AllItems(f_out.styles)[j] \notin {"draw opacity=1", "opacity=1"}
        /\ SelectSeq(AllItems(f_out.styles),
                     LAMBDA it : it \in {"draw opacity=0.5", "fill opacity=0.5"})
           = SelectSeq(AllItems(f_in.styles),
                       LAMBDA it : it \in {"draw opacity=0.5", "fill opacity=0.5"})
        /\ \A b \in 1..Len(f_out.styles) : f_out.styles[b] # <<>>

\* ===================================================== geometry helpers
\* The pipeline, the text model and the round trip while a component is
\* used on its own.
OthersIdle ==
    /\ input = <<>>
    /\ cfg = DefaultConfig
    /\ stage_faults = {}
    /\ pc = "idle"
    /\ shape_blocks = <<>>
    /\ detected_shapes = <<>>
    /\ processed_shapes = <<>>
    /\ renderer_cfg = NoNodesCfg
    /\ body = <<>>
    /\ color_defs = FALSE
    /\ output = <<>>
    /\ outcome = "none"
    /\ ConverterFresh
    /\ SingleCall
    /\ TextIdle
    /\ TripIdle

\* ----------------------------------------- split_bezier_into_segments
MaxPoints == 7

\* Any list of up to MaxPoints points; a point is one of three places.
InitSegments ==
    /\ f_pc = "split"
    /\ f_in \in UNION { [1..n -> 1..3] : n \in 0..MaxPoints }
    /\ f_obj = <<>>
    /\ f_out = <<>>
    /\ OthersIdle

\* Variant: the runs do not overlap, each starts after the last one ends.
SegmentStarts_Disjoint(n) ==
    SelectSeq([j \in 1..((n + 1) \div 3) |-> 4 * (j - 1)], LAMBDA i : i + 3 < n)

\* range(0, len(points_list) - 1, 3) filtered by i + 3 < len(points_list)
SegmentStarts(n) ==
    SelectSeq([j \in 1..((n + 1) \div 3) |-> 3 * (j - 1)], LAMBDA i : i + 3 < n)

\* point_path_operations.split_bezier_into_segments; points_list[i:i+4]
\* with i counted from 0 is SubSeq from i + 1 to i + 4.
split_bezier_into_segments(points_list) ==
    LET starts == SegmentStarts(Len(points_list))
    IN  [k \in 1..Len(starts) |->
            SubSeq(points_list, starts[k] + 1, starts[k] + 4)]

SplitSegments ==
    /\ f_pc = "split"
    /\ f_out' = split_bezier_into_segments(f_in)
    /\ f_pc' = "done"
    /\ UNCHANGED <<f_in, f_obj, pipe_vars, text_vars, trip_vars>>

SpecSegments == InitSegments /\ [][SplitSegments]_vars

\* ---------------------------------------------------------------- C21
\* C21: a list of n points gives floor((n-1)/3) segments when n >= 4 and
\* none when n < 4; segment k (from 0) is the four points 3k..3k+3, so
\* consecutive segments share their boundary point and the trailing points
\* that do not complete a run are dropped.
C21_SegmentsOfFour ==
    f_pc = "done" =>
        /\ Len(f_out) = IF Len(f_in) >= 4 THEN (Len(f_in) - 1) \div 3 ELSE 0
        /\ \A k \in 1..Len(f_out) :
              f_out[k] = << f_in[3 * k - 2], f_in[3 * k - 1], f_in[3 * k],
                            f_in[3 * k + 1] >>
        /\ \A k \in 1..(Len(f_out) - 1) : f_out[k][4] = f_out[k + 1][1]

\* Two segments out of seven points whose fourth differs from its
\* neighbours, and a list with a trailing incomplete run.
C21_Witness ==
    /\ f_pc = "done"
    /\ Len(f_in) = 7
    /\ Len(f_out) = 2
    /\ f_in[4] # f_in[5]
    /\ f_in[4] # f_in[3]
    /\ f_out[1][4] = f_in[4]

\* ------------------------------------------------ determine_arrow_type
MaxTurns == 1

\* The tangent is one of the eight compass directions (Y down), the
\* rotation any multiple of five degrees within MaxTurns turns either way.
InitArrowType ==
    /\ f_pc = "arrow"
    /\ f_in \in [tangent : { <<1, 0>>, <<1, 1>>, <<0, 1>>, <<-1, 1>>, <<-1, 0>>,
                             <<-1, -1>>, <<0, -1>>, <<1, -1>> },
                 rotation_deg : { 5 * r : r \in (0 - 72 * MaxTurns)..(72 * MaxTurns) },
                 is_end_arrow : BOOLEAN]
    /\ f_obj = <<>>
    /\ f_out = <<>>
    /\ OthersIdle

\* math.degrees(math.atan2(dy, dx)) % 360 for the compass directions.
base_angle(tangent) ==
    CASE tangent = <<1, 0>>   -> 0
      [] tangent = <<1, 1>>   -> 45
      [] tangent = <<0, 1>>   -> 90
      [] tangent = <<-1, 1>>  -> 135
      [] tangent = <<-1, 0>>  -> 180
      [] tangent = <<-1, -1>> -> 225
      [] tangent = <<0, -1>>  -> 270
      [] tangent = <<1, -1>>  -> 315

\* determine_arrow_type, lines 142-146
expected_angle(tangent, is_end_arrow) ==
    IF is_end_arrow THEN base_angle(tangent)
    ELSE (base_angle(tangent) + 180) % 360

\* determine_arrow_type, lines 148-150: min(diff, 360 - diff)
min_diff(rotation_deg, expected) ==
    LET diff == Abs(rotation_deg - expected)
    IN  IF diff <= 360 - diff THEN diff ELSE 360 - diff

\* point_path_operations.determine_arrow_type with tol = 15.0
determine_arrow_type(tangent, rotation_deg, is_end_arrow) ==
    IF min_diff(rotation_deg, expected_angle(tangent, is_end_arrow)) < 15
    THEN IF is_end_arrow THEN "<" ELSE ">"
    ELSE IF is_end_arrow THEN ">" ELSE "<"

DetermineArrowType ==
    /\ f_pc = "arrow"
    /\ f_out' = determine_arrow_type(f_in.tangent, f_in.rotation_deg,
                                     f_in.is_end_arrow)
    /\ f_pc' = "done"
    /\ UNCHANGED <<f_in, f_obj, pipe_vars, text_vars, trip_vars>>

SpecArrowType == InitArrowType /\ [][DetermineArrowType]_vars

\* ---------------------------------------------------------------- C22
\* The circular distance of two angles: the smaller of the two ways round,
\* always within 0..180.
Circular(a, b) ==
    LET d == (a - b) % 360 IN IF d <= 180 THEN d ELSE 360 - d

\* C22 as stated: the aligned marker ('<' for an end arrow, '>' for a start
\* arrow) is returned exactly when the circular distance between the
\* rotation and the expected angle is below 15 degrees, the opposite marker
\* otherwise, for every rotation, negative ones included.
C22_AlignedIffNear ==
    f_pc = "done" =>
        LET near == Circular(f_in.rotation_deg,
                             expected_angle(f_in.tangent, f_in.is_end_arrow)) < 15
        IN  f_out = IF f_in.is_end_arrow
                    THEN (IF near THEN "<" ELSE ">")
                    ELSE (IF near THEN ">" ELSE "<")

\* ==================================================== straight arrows
\* StraightArrows.process_arrows on a line from (0,0) with its helpers.
MaxHelpers == 2

\* The end point makes the line shorter or longer than the 10-unit
\* threshold, along an axis or a diagonal; a helper is anchored on or near
\* the line, with its arrowhead rotated by 0 or 180 degrees.
InitStraightArrows ==
    /\ f_pc = "arrows"
    /\ f_in \in [end_pt : { <<5, 0>>, <<40, 0>>, <<0, 100>>, <<30, 30>> },
                 helpers : UNION { [1..n ->
                     [anchor : {-4, 0, 5, 20, 36, 40} \X {0, 30, 100},
                      rotation : {0, 180}]] : n \in 1..MaxHelpers }]
    /\ f_obj = <<>>
    /\ f_out = <<>>
    /\ OthersIdle

\* base_geometry.distance, squared.
DistSq(a, b) == Square(a[1] - b[1]) + Square(a[2] - b[2])

\* project_point_on_segment from (0,0): the fraction t as the numerator
\* over the squared length of the segment, clamped to [0, 1].
project_point_on_segment(point, end) ==
    LET seg_len_sq == DistSq(end, <<0, 0>>)
        dot == point[1] * end[1] + point[2] * end[2]
    IN  IF dot < 0 THEN 0 ELSE IF dot > seg_len_sq THEN seg_len_sq ELSE dot

\* The direction of a vector along an axis or a diagonal.
Compass(v) ==
    << IF v[1] > 0 THEN 1 ELSE IF v[1] < 0 THEN -1 ELSE 0,
       IF v[2] > 0 THEN 1 ELSE IF v[2] < 0 THEN -1 ELSE 0 >>

\* Variant: the end point is tested before the start point.
ArrowSlot_EndFirst(anchor, end_pt) ==
    LET t == project_point_on_segment(anchor, end_pt)
        len_sq == DistSq(end_pt, <<0, 0>>)
    IN  IF DistSq(anchor, end_pt) < 100 \/ 20 * t >= 19 * len_sq THEN "end"
        ELSE IF DistSq(anchor, <<0, 0>>) < 100 \/ 20 * t <= len_sq THEN "start"
        ELSE "mid"

\* process_arrows, lines 79-90: dist_start < 10 or t <= 0.05 is the start,
\* else dist_end < 10 or t >= 0.95 is the end, else the helper is mid-path.
ArrowSlot(anchor, end_pt) ==
    LET t == project_point_on_segment(anchor, end_pt)
        len_sq == DistSq(end_pt, <<0, 0>>)
    IN  IF DistSq(anchor, <<0, 0>>) < 100 \/ 20 * t <= len_sq THEN "start"
        ELSE IF DistSq(anchor, end_pt) < 100 \/ 20 * t >= 19 * len_sq THEN "end"
        ELSE "mid"

\* mid_arrows.sort(key=position): a stable sort, by insertion.
RECURSIVE SortByPosition(_)
SortByPosition(arrows) ==
    IF arrows = <<>> THEN <<>>
    ELSE LET last == arrows[Len(arrows)]
             rest == SortByPosition(SubSeq(arrows, 1, Len(arrows) - 1))
             before == SelectSeq(rest, LAMBDA a : a.position <= last.position)
             after == SelectSeq(rest, LAMBDA a : a.position > last.position)
         IN  before \o << last >> \o after

\* process_arrows, the loop over arrow_commands.
RECURSIVE ArrowsLoop(_, _, _)
ArrowsLoop(helpers, end_pt, info) ==
    IF helpers = <<>>
    THEN [info EXCEPT !.mid_arrows = SortByPosition(@)]
    ELSE LET h == Head(helpers)
             slot == ArrowSlot(h.anchor, end_pt)
             direction == determine_arrow_type(Compass(end_pt), h.rotation,
                                               slot # "start")
         IN  ArrowsLoop(Tail(helpers), end_pt,
                CASE slot = "start" -> [info EXCEPT !.start_arrow = direction]
                  [] slot = "end"   -> [info EXCEPT !.end_arrow = direction]
                  [] OTHER -> [info EXCEPT !.mid_arrows = Append(@,
                        [position |-> project_point_on_segment(h.anchor, end_pt),
                         direction |-> direction])])

\* StraightArrows.process_arrows
ProcessArrows ==
    /\ f_pc = "arrows"
    /\ f_out' = ArrowsLoop(f_in.helpers, f_in.end_pt,
                           [start_arrow |-> "none", end_arrow |-> "none",
                            mid_arrows |-> <<>>])
    /\ f_pc' = "done"
    /\ UNCHANGED <<f_in, f_obj, pipe_vars, text_vars, trip_vars>>

SpecStraightArrows == InitStraightArrows /\ [][ProcessArrows]_vars

\* ---------------------------------------------------------------- C23
\* The helpers that the claim assigns to the start, the end, the middle.
NearStart(h) ==
    \/ DistSq(h.anchor, <<0, 0>>) < 100
    \/ 20 * project_point_on_segment(h.anchor, f_in.end_pt)
          <= DistSq(f_in.end_pt, <<0, 0>>)

NearEnd(h) ==
    \/ DistSq(h.anchor, f_in.end_pt) < 100
    \/ 20 * project_point_on_segment(h.anchor, f_in.end_pt)
          >= 19 * DistSq(f_in.end_pt, <<0, 0>>)

MidHelpers ==
    SelectSeq(f_in.helpers, LAMBDA h : ~NearStart(h) /\ ~NearEnd(h))

\* C23: on a straight line with distinct endpoints every helper goes to
\* exactly one of start, end or mid: to the start when it is within 10
\* units of the start point or its fraction t is <= 0.05, else to the end
\* when it is within 10 units of the end point or t >= 0.95, else to the
\* mid arrows with its t, 0.05 < t < 0.95; the mid arrows are sorted by
\* ascending position.
C23_StartEndOrMid ==
    f_pc = "done" =>
        /\ f_out.start_arrow # "none"
              <=> \E j \in 1..Len(f_in.helpers) : NearStart(f_in.helpers[j])
        /\ f_out.end_arrow # "none"
              <=> \E j \in 1..Len(f_in.helpers) :
                      ~NearStart(f_in.helpers[j]) /\ NearEnd(f_in.helpers[j])
        /\ Len(f_out.mid_arrows) = Len(MidHelpers)
        /\ \A a \in 1..Len(f_out.mid_arrows) :
              /\ \E j \in 1..Len(MidHelpers) :
                    f_out.mid_arrows[a].position =
                        project_point_on_segment(MidHelpers[j].anchor, f_in.end_pt)
              /\ 20 * f_out.mid_arrows[a].position > DistSq(f_in.end_pt, <<0, 0>>)
              /\ 20 * f_out.mid_arrows[a].position
                    < 19 * DistSq(f_in.end_pt, <<0, 0>>)
        /\ \A a \in 1..(Len(f_out.mid_arrows) - 1) :
              f_out.mid_arrows[a].position <= f_out.mid_arrows[a + 1].position

\* Two mid-path helpers given in descending order come out ascending.
C23_Witness ==
    /\ f_pc = "done"
    /\ Len(f_out.mid_arrows) = 2
    /\ f_out.mid_arrows[1].position < f_out.mid_arrows[2].position
    /\ project_point_on_segment(f_in.helpers[1].anchor, f_in.end_pt)
          > project_point_on_segment(f_in.helpers[2].anchor, f_in.end_pt)
    /\ f_out.start_arrow = "none"

\* ---------------------------------------------------------------- C29
\* C29 as stated: a helper anchored exactly at the end point of a line of
\* positive length is recorded as the end arrow and never as the start
\* arrow, also on a line shorter than the 10-unit threshold; a helper at
\* the start point is recorded as the start arrow.
C29_EndpointHelper ==
    (f_pc = "done" /\ Len(f_in.helpers) = 1) =>
        /\ f_in.helpers[1].anchor = f_in.end_pt =>
              f_out.end_arrow # "none" /\ f_out.start_arrow = "none"
        /\ f_in.helpers[1].anchor = <<0, 0>> =>
              f_out.start_arrow # "none" /\ f_out.end_arrow = "none"

\* ====================================================== shape parsers
\* The parse_shape of the four registered shape processors on a block of
\* \draw commands, one per line.
MaxDraws == 2

\* A \draw command: its path-join tokens, its affine transform options, the
\* characters of its draw opacity value (none when the option is absent)
\* and its textual length.
InitParsers ==
    /\ f_pc = "parse_shape"
    /\ f_in \in [parser : {"straight", "curve", "ellipse", "arc"},
                 draws : UNION { [1..n ->
                     [join : {"--", ".. controls and ..",
                              ".. controls and .. -- cycle"},
                      transform : {"", "shift={}, rotate", "rotate"},
                      opacity : {<<>>, <<"0">>, <<"0", ".", "5">>},
                      len : 1..2]] : n \in 0..MaxDraws }]
    /\ f_obj = <<>>
    /\ f_out = <<>>
    /\ OthersIdle

NoLine == [join |-> "", transform |-> "", opacity |-> <<>>, len |-> 0]

\* '..' in s and 'controls' in s and 'and' in s
HasControls(d) == d.join # "--"

\* '-- cycle' in s
HasCycle(d) == d.join = ".. controls and .. -- cycle"

\* 'shift' in s, and the arc parser's 'shift={' in s
HasShift(d) == d.transform = "shift={}, rotate"

\* 'rotate' in s
HasRotate(d) == d.transform # ""

\* parser_utils.is_arrow_line
is_arrow_line(d) == HasShift(d) \/ HasRotate(d)

\* 'draw opacity=0' in s: the text of the option up to the first character
\* of its value.
HasOpacityZeroText(d) == Len(d.opacity) >= 1 /\ d.opacity[1] = "0"

\* max(candidates, key=len): the first of the longest, None without any.
RECURSIVE MaxByLen(_)
MaxByLen(candidates) ==
    IF candidates = <<>> THEN NoLine
    ELSE LET rest == MaxByLen(Tail(candidates))
         IN  IF rest = NoLine \/ Head(candidates).len >= rest.len
             THEN Head(candidates) ELSE rest

\* parser_utils.choose_main_draw; require_bezier is "True", "False" or
\* "None".
choose_main_draw(draws, require_bezier, require_closed, exclude_opacity_zero) ==
    MaxByLen(SelectSeq(draws, LAMBDA d :
        /\ ~(exclude_opacity_zero /\ HasOpacityZeroText(d))
        /\ ~(require_bezier = "True" /\ ~HasControls(d))
        /\ ~(require_closed /\ ~HasCycle(d))
        /\ ~(require_bezier = "False" /\ HasControls(d))))

\* BaseParser.parse_shape; main_filter is the straight parser's filter or
\* absent.
BaseParser_parse_shape(draws, with_filter, require_bezier) ==
    LET arrow_cmds == SelectSeq(draws, is_arrow_line)
        body_cmds == SelectSeq(draws, LAMBDA d : ~is_arrow_line(d))
        filtered == IF with_filter
                    THEN SelectSeq(body_cmds, LAMBDA d :
                            ~HasShift(d) /\ ~HasRotate(d) /\ ~HasControls(d))
                    ELSE body_cmds
    IN  [main |-> choose_main_draw(filtered, require_bezier, FALSE, FALSE),
         arrows |-> arrow_cmds]

\* EllipseParser.parse_shape: the first closed bezier line is the main
\* command, every other \draw line an extra command.
EllipseParser_parse_shape(draws) ==
    LET closed == SelectSeq(draws, LAMBDA d : HasControls(d) /\ HasCycle(d))
        main == IF closed = <<>> THEN NoLine ELSE Head(closed)
    IN  [main |-> main,
         arrows |-> SelectSeq(draws, LAMBDA d :
                        ~(HasControls(d) /\ HasCycle(d)))]

\* ArcParser.parse_shape, lines 52-72.
ArcParser_parse_shape(draws) ==
    [main |-> MaxByLen(SelectSeq(draws, LAMBDA d :
                  ~HasShift(d) /\ ~HasOpacityZeroText(d) /\ HasControls(d))),
     arrows |-> SelectSeq(draws, HasShift)]

\* StraightParser, CurveParser, EllipseParser, ArcParser: parse_shape.
parse_shape(parser, draws) ==
    CASE parser = "straight" -> BaseParser_parse_shape(draws, TRUE, "False")
      [] parser = "curve"    -> BaseParser_parse_shape(draws, FALSE, "True")
      [] parser = "ellipse"  -> EllipseParser_parse_shape(draws)
      [] OTHER               -> ArcParser_parse_shape(draws)

ParseShape ==
    /\ f_pc = "parse_shape"
    /\ f_out' = parse_shape(f_in.parser, f_in.draws)
    /\ f_pc' = "done"
    /\ UNCHANGED <<f_in, f_obj, pipe_vars, text_vars, trip_vars>>

SpecParsers == InitParsers /\ [][ParseShape]_vars

\* ---------------------------------------------------------------- C24
\* A line qualifies for a type by its path-join token: a plain segment join
\* for straight, the cubic-control join for curve and arc, the
\* cubic-control join with the closing token for ellipse; a line with an
\* affine transform is a helper, and an invisible stroke is excluded.
Qualifies(parser, d) ==
    /\ CASE parser = "straight" -> d.join = "--"
         [] parser = "ellipse"  -> d.join = ".. controls and .. -- cycle"
         [] OTHER               -> d.join # "--"
    /\ d.transform = ""
    /\ d.opacity # <<"0">>

\* C24 as stated: for every shape parser the main command returned is a
\* longest line among the lines that qualify for the type, and a line with
\* an affine shift or rotate transform is never the main command but is
\* among the arrowhead helpers.
C24_LongestQualifying ==
    f_pc = "done" =>
        /\ f_out.main # NoLine =>
              /\ Qualifies(f_in.parser, f_out.main)
              /\ \A j \in 1..Len(f_in.draws) :
                    Qualifies(f_in.parser, f_in.draws[j])
                        => f_in.draws[j].len <= f_out.main.len
        /\ \A j \in 1..Len(f_in.draws) :
              f_in.draws[j].transform # "" =>
                  /\ f_out.main # f_in.draws[j]
                  /\ \E a \in 1..Len(f_out.arrows) :
                        f_out.arrows[a] = f_in.draws[j]

\* ---------------------------------------------------------------- C25
\* C25 as stated: the opacity-zero guard excludes a candidate only when its
\* draw opacity is exactly zero; an arc block with a visible bezier line of
\* draw opacity 0.5 has a main command.
C25_FractionalOpacityEligible ==
    (f_pc = "done" /\ f_in.parser = "arc") =>
        ((\E j \in 1..Len(f_in.draws) :
              /\ HasControls(f_in.draws[j])
              /\ f_in.draws[j].transform = ""
              /\ f_in.draws[j].opacity = <<"0", ".", "5">>)
            => f_out.main # NoLine)

\* ===================================================== label placement
\* convert, lines 97-110: the anchors of the post-processed output lines and
\* the placement of a label on them.
MaxParts == 2

\* An output line: the token that classifies it, its style options, its
\* coordinates, and whether it is an arrowhead helper with 'shift={'.  A
\* circle has its centre, a path or a bezier line two distinct points.
InitPlacement ==
    /\ f_pc = "collect"
    /\ f_in \in [at : { <<5, 3>>, <<10, 3>>, <<0, 0>>, <<40, 40>> },
                 tikz_parts : UNION { [1..n ->
                     [join : {" circle "},
                      style : {{}, {"color="}, {"color=", "dashed"},
                               {"line width=0.75"}},
                      coords : { << <<0, 0>> >>, << <<10, 0>> >>, << <<10, 10>> >> },
                      shift : {FALSE}]
                     \cup
                     [join : {"--"},
                      style : {{}, {"color="}, {"color=", "dashed"},
                               {"line width=0.75"}},
                      coords : { << <<0, 0>>, <<10, 0>> >>, << <<10, 0>>, <<0, 0>> >>,
                                 << <<10, 0>>, <<10, 10>> >>,
                                 << <<0, 0>>, <<10, 10>> >> },
                      shift : {FALSE}]
                     \cup
                     [join : {".. controls", "--"},
                      style : {{}, {"line width=1.5"}},
                      coords : { << <<0, 0>>, <<10, 10>> >> },
                      shift : BOOLEAN]] : n \in 1..MaxParts }]
    /\ f_obj = <<>>
    /\ f_out = <<>>
    /\ OthersIdle

\* classify_line
classify_line(line) ==
    CASE line.join = " circle " -> "circle"
      [] line.join = "--"       -> "path"
      [] OTHER                  -> "unknown"

\* type_score
type_score(t) ==
    CASE t = "circle" -> 3
      [] t = "path"   -> 2
      [] OTHER        -> 0

\* collect_anchors_from_tikz_parts, lines 126-140: one for an explicit
\* color, one for a dash option, one for a line width of at least 1.
style_weight(line) ==
    (IF "color=" \in line.style THEN 1 ELSE 0)
    + (IF "dashed" \in line.style THEN 1 ELSE 0)
    + (IF "line width=1.5" \in line.style THEN 1 ELSE 0)

\* collect_anchors_from_tikz_parts, lines 146-163, for one coordinate: a
\* label's own point is skipped, a new coordinate is added, a known one is
\* replaced by a candidate of a higher type score only.
AddCandidate(best_by_point, cand, node_point) ==
    IF cand.point = node_point THEN best_by_point
    ELSE IF \A j \in 1..Len(best_by_point) : best_by_point[j].point # cand.point
    THEN Append(best_by_point, cand)
    ELSE [j \in 1..Len(best_by_point) |->
            IF /\ best_by_point[j].point = cand.point
               /\ type_score(cand.shape_type) > type_score(best_by_point[j].shape_type)
            THEN cand ELSE best_by_point[j]]

\* The loop over COORD_RE.finditer(line).
RECURSIVE ScanCoordinates(_, _, _, _, _)
ScanCoordinates(best_by_point, coords, idx, line, node_point) ==
    IF coords = <<>> THEN best_by_point
    ELSE ScanCoordinates(
            AddCandidate(best_by_point,
                         [point |-> Head(coords), render_index |-> idx,
                          shape_type |-> classify_line(line),
                          style_weight |-> style_weight(line)],
                         node_point),
            Tail(coords), idx, line, node_point)

\* collect_anchors_from_tikz_parts: the loop over the lines from idx on;
\* helper lines with 'shift={' are skipped.
RECURSIVE collect_anchors_from_tikz_parts(_, _, _, _)
collect_anchors_from_tikz_parts(tikz_parts, node_point, idx, best_by_point) ==
    IF idx >= Len(tikz_parts) THEN best_by_point
    ELSE collect_anchors_from_tikz_parts(tikz_parts, node_point, idx + 1,
            IF tikz_parts[idx + 1].shift THEN best_by_point
            ELSE ScanCoordinates(best_by_point, tikz_parts[idx + 1].coords, idx,
                                 tikz_parts[idx + 1], node_point))

\* extract_path_segments for lines of two coordinates: the segment of every
\* \draw line with '--' that is no helper, in the order of the lines.
RECURSIVE extract_path_segments(_, _)
extract_path_segments(tikz_parts, idx) ==
    IF idx >= Len(tikz_parts) THEN <<>>
    ELSE LET line == tikz_parts[idx + 1]
         IN  (IF ~line.shift /\ line.join = "--" /\ Len(line.coords) >= 2
              THEN << [ri |-> idx, a |-> line.coords[1], b |-> line.coords[2]] >>
              ELSE <<>>)
             \o extract_path_segments(tikz_parts, idx + 1)

\* place_nodes, lines 72-74: the projection of the label on a segment, its
\* fraction t = n / len_sq, its foot and its squared distance as fractions
\* over len_sq.
Projection(qpt, seg) ==
    LET v == << qpt[1] - seg.a[1], qpt[2] - seg.a[2] >>
        e == << seg.b[1] - seg.a[1], seg.b[2] - seg.a[2] >>
        n == project_point_on_segment(v, e)
        len_sq == DistSq(seg.a, seg.b)
    IN  [render_index |-> seg.ri, n |-> n, den |-> len_sq,
         foot |-> << seg.a[1] * len_sq + n * e[1], seg.a[2] * len_sq + n * e[2] >>,
         d_sq |-> DistSq(v, <<0, 0>>) * len_sq
                  - 2 * n * (v[1] * e[1] + v[2] * e[2]) + n * n]

\* An anchor as a target: the foot is the anchor, at the end of the path.
AtAnchor(qpt, anchor) ==
    [render_index |-> anchor.render_index, n |-> 1, den |-> 1,
     foot |-> anchor.point, d_sq |-> DistSq(qpt, anchor.point)]

\* 'if d < best_d': the first of the nearest targets.
RECURSIVE Nearest(_)
Nearest(targets) ==
    IF Len(targets) = 1 THEN targets[1]
    ELSE LET rest == Nearest(SubSeq(targets, 1, Len(targets) - 1))
             last == targets[Len(targets)]
         IN  IF last.d_sq * rest.den < rest.d_sq * last.den THEN last ELSE rest

\* f"pos={best_pos_on_path:.2f}": the fraction in hundredths, rounded.
Hundredths(n, den) == (200 * n + den) \div (2 * den)

\* NodePlacer.place_nodes for one label: the targets are the segments of
\* the lines that own a 'path' anchor, or without a segment the 'path'
\* anchors themselves; a target farther than max_distance is dropped.
place_nodes(qpt, anchors, segments_by_line, max_distance) ==
    LET allowed == SelectSeq(anchors, LAMBDA a : a.shape_type = "path")
        anchors_by_line == { allowed[j].render_index : j \in 1..Len(allowed) }
        segs == SelectSeq(segments_by_line, LAMBDA g : g.ri \in anchors_by_line)
        targets == IF segs # <<>>
                   THEN [j \in 1..Len(segs) |-> Projection(qpt, segs[j])]
                   ELSE [j \in 1..Len(allowed) |-> AtAnchor(qpt, allowed[j])]
    IN  IF anchors = <<>> \/ targets = <<>> THEN <<>>
        ELSE LET best == Nearest(targets)
             IN  IF best.d_sq > max_distance * max_distance * best.den
                 THEN <<>>
                 ELSE << [render_index |-> best.render_index,
                          foot |-> best.foot, den |-> best.den,
                          pos |-> IF best.n < best.den
                                  THEN Hundredths(best.n, best.den)
                                  ELSE -1] >>

\* convert, line 103.
CollectAnchors ==
    /\ f_pc = "collect"
    /\ f_obj' = collect_anchors_from_tikz_parts(f_in.tikz_parts, f_in.at, 0, <<>>)
    /\ f_pc' = "place"
    /\ UNCHANGED <<f_in, f_out, pipe_vars, text_vars, trip_vars>>

\* convert, lines 105-110: place_nodes is called without segments_by_line.
PlaceLabel ==
    /\ f_pc = "place"
    /\ f_out' = place_nodes(f_in.at, f_obj, <<>>, DefaultMaxDistance)
    /\ f_pc' = "done"
    /\ UNCHANGED <<f_in, f_obj, pipe_vars, text_vars, trip_vars>>

NextPlacement ==
    \/ CollectAnchors
    \/ PlaceLabel

SpecPlacement == InitPlacement /\ [][NextPlacement]_vars

\* ---------------------------------------------------------------- C26
\* C26 as stated: the anchor kept for a coordinate belongs to a line of the
\* highest classification among the lines that contain the coordinate, and
\* among the lines of that classification to one of the greatest style
\* weight, whatever the order of the lines.
C26_RichestLineKept ==
    f_pc \in {"place", "done"} =>
        \A j \in 1..Len(f_obj) : \A k \in 1..Len(f_in.tikz_parts) :
            LET line == f_in.tikz_parts[k]
            IN  (/\ ~line.shift
                 /\ \E c \in 1..Len(line.coords) : line.coords[c] = f_obj[j].point)
                => /\ type_score(classify_line(line))
                         <= type_score(f_obj[j].shape_type)
                   /\ classify_line(line) = f_obj[j].shape_type
                         => style_weight(line) <= f_obj[j].style_weight

\* ---------------------------------------------------------------- C30
\* C30 as stated: every coordinate of a line classified as a path that is
\* not the label's own point is among the points place_nodes chooses from,
\* whatever other lines contain the coordinate.
C30_PathCoordinateEligible ==
    f_pc = "done" =>
        \A k \in 1..Len(f_in.tikz_parts) :
            LET line == f_in.tikz_parts[k]
            IN  (~line.shift /\ classify_line(line) = "path") =>
                    \A c \in 1..Len(line.coords) :
                        line.coords[c] # f_in.at =>
                            \E j \in 1..Len(f_obj) :
                                /\ f_obj[j].point = line.coords[c]
                                /\ f_obj[j].shape_type = "path"

\* ---------------------------------------------------------------- C27
\* What place_nodes returns when it is given the segments of the lines.
OnSegments ==
    place_nodes(f_in.at, f_obj, extract_path_segments(f_in.tikz_parts, 0),
                DefaultMaxDistance)

\* C27 as stated: a label whose closest point on a path lies inside a
\* segment is attached at the foot of its projection on the segment, with
\* the fraction of the foot along the path as its pos attribute.
C27_ProjectedOnSegment ==
    (f_pc = "done" /\ OnSegments # <<>> /\ OnSegments[1].pos >= 1) =>
        /\ f_out # <<>>
        /\ f_out[1].render_index = OnSegments[1].render_index
        /\ f_out[1].pos = OnSegments[1].pos
        /\ f_out[1].foot[1] * OnSegments[1].den = OnSegments[1].foot[1] * f_out[1].den
        /\ f_out[1].foot[2] * OnSegments[1].den = OnSegments[1].foot[2] * f_out[1].den

\* ========================================================= registries
\* Two threads that each construct a Converter for the first time, then
\* convert or construct further Converters.  f_obj holds the two class-level
\* registries and the two module flags, f_pc each thread's position, f_in
\* its next registration and the Converters it has built, f_out what its
\* last convert looked up.
MaxConstructions == 2

ConverterThreads == {"t1", "t2"}

\* register_builtin_processors: the register calls in their order.
ProcessorRegistrations ==
    << <<"StraightLine", "StraightProcessor">>, <<"Line", "StraightProcessor">>,
       <<"CurveLine", "CurveProcessor">>, <<"Curve", "CurveProcessor">>,
       <<"EllipseShape", "EllipseProcessor">>, <<"Ellipse", "EllipseProcessor">>,
       <<"Circle", "EllipseProcessor">>,
       <<"ArcShape", "ArcProcessor">>, <<"Arc", "ArcProcessor">>,
       <<"arc", "ArcProcessor">> >>

\* register_builtin_renderers: the register calls in their order; the
\* classes are defined inside the function, anew on every call.
RendererRegistrations ==
    << <<"StraightLine", "StraightLineRenderer">>, <<"Line", "StraightLineRenderer">>,
       <<"EllipseShape", "EllipseShapeRenderer">>, <<"Ellipse", "EllipseShapeRenderer">>,
       <<"Circle", "EllipseShapeRenderer">>,
       <<"ArcShape", "ArcShapeRenderer">>, <<"Arc", "ArcShapeRenderer">>,
       <<"arc", "ArcShapeRenderer">> >>

\* Tags that no registration names.
UnknownTags == {"Unknown", "Text Node", ""}

\* _normalize_shape_type: stripped, lower case, white space and hyphens
\* collapsed to an underscore, "unknown" for an empty tag.
_normalize_shape_type(shape_type) ==
    CASE shape_type = "StraightLine" -> "straightline"
      [] shape_type = "Line"         -> "line"
      [] shape_type = "CurveLine"    -> "curveline"
      [] shape_type = "Curve"        -> "curve"
      [] shape_type = "EllipseShape" -> "ellipseshape"
      [] shape_type = "Ellipse"      -> "ellipse"
      [] shape_type = "Circle"       -> "circle"
      [] shape_type = "ArcShape"     -> "arcshape"
      [] shape_type \in {"Arc", "arc"} -> "arc"
      [] shape_type = "Text Node"    -> "text_node"
      [] OTHER                       -> "unknown"

RegistryKeys ==
    { _normalize_shape_type(ProcessorRegistrations[k][1]) :
          k \in 1..Len(ProcessorRegistrations) }
    \cup { _normalize_shape_type(u) : u \in UnknownTags }

InitRegistries ==
    /\ f_pc = [t \in ConverterThreads |-> "p_check"]
    /\ f_in = [t \in ConverterThreads |-> [k |-> 1, built |-> 0]]
    /\ f_obj = [_processors |-> [key \in RegistryKeys |-> "None"],
                _fallback_processor |-> "None",
                _renderers |-> [key \in RegistryKeys |-> <<"None", "">>],
                _BUILTIN_PROCESSORS_REGISTERED |-> FALSE,
                _BUILTIN_RENDERERS_REGISTERED |-> FALSE]
    /\ f_out = [t \in ConverterThreads |-> <<>>]
    /\ OthersIdle

\* Variant: a tag without a processor of its own resolves to nothing.
ProcessorRegistry_get_processor_NoFallback(registry, shape_type) ==
    registry._processors[_normalize_shape_type(shape_type)]

\* ProcessorRegistry.get_processor
ProcessorRegistry_get_processor(registry, shape_type) ==
    LET processor == registry._processors[_normalize_shape_type(shape_type)]
    IN  IF processor = "None" /\ registry._fallback_processor # "None"
        THEN registry._fallback_processor
        ELSE processor

\* RendererRegistry.get_renderer; no fallback renderer is ever registered.
RendererRegistry_get_renderer(registry, shape_type) ==
    registry._renderers[_normalize_shape_type(shape_type)]

\* ensure_builtin_processors_registered, line 336: the flag is read.
CheckProcessors(t) ==
    /\ f_pc[t] = "p_check"
    /\ f_pc' = [f_pc EXCEPT ![t] =
                  IF f_obj._BUILTIN_PROCESSORS_REGISTERED
                  THEN "r_check" ELSE "p_register"]
    /\ f_in' = [f_in EXCEPT ![t].k = 1]
    /\ UNCHANGED <<f_obj, f_out, pipe_vars, text_vars, trip_vars>>

\* register_builtin_processors: one ProcessorRegistry.register call.
RegisterProcessor(t) ==
    /\ f_pc[t] = "p_register"
    /\ f_in[t].k <= Len(ProcessorRegistrations)
    /\ LET reg == ProcessorRegistrations[f_in[t].k]
       IN  f_obj' = [f_obj EXCEPT
                        !._processors[_normalize_shape_type(reg[1])] = reg[2]]
    /\ f_in' = [f_in EXCEPT ![t].k = @ + 1]
    /\ UNCHANGED <<f_pc, f_out, pipe_vars, text_vars, trip_vars>>

\* register_builtin_processors, line 323: register_fallback.
RegisterFallback(t) ==
    /\ f_pc[t] = "p_register"
    /\ f_in[t].k > Len(ProcessorRegistrations)
    /\ f_obj' = [f_obj EXCEPT !._fallback_processor = "RawPassthroughProcessor"]
    /\ f_pc' = [f_pc EXCEPT ![t] = "p_set"]
    /\ UNCHANGED <<f_in, f_out, pipe_vars, text_vars, trip_vars>>

\* ensure_builtin_processors_registered, line 338: the flag is set.
SetProcessorsRegistered(t) ==
    /\ f_pc[t] = "p_set"
    /\ f_obj' = [f_obj EXCEPT !._BUILTIN_PROCESSORS_REGISTERED = TRUE]
    /\ f_pc' = [f_pc EXCEPT ![t] = "r_check"]
    /\ UNCHANGED <<f_in, f_out, pipe_vars, text_vars, trip_vars>>

\* ensure_builtin_renderers_registered, line 493: the flag is read; with
\* the flag set the Converter is complete.
CheckRenderers(t) ==
    /\ f_pc[t] = "r_check"
    /\ IF f_obj._BUILTIN_RENDERERS_REGISTERED
       THEN /\ f_pc' = [f_pc EXCEPT ![t] = "ready"]
            /\ f_in' = [f_in EXCEPT ![t].built = @ + 1]
       ELSE /\ f_pc' = [f_pc EXCEPT ![t] = "r_register"]
            /\ f_in' = [f_in EXCEPT ![t].k = 1]
    /\ UNCHANGED <<f_obj, f_out, pipe_vars, text_vars, trip_vars>>

\* register_builtin_renderers: one RendererRegistry.register call, with a
\* class of this call.
RegisterRenderer(t) ==
    /\ f_pc[t] = "r_register"
    /\ LET reg == RendererRegistrations[f_in[t].k]
       IN  f_obj' = [f_obj EXCEPT
                        !._renderers[_normalize_shape_type(reg[1])] = <<reg[2], t>>]
    /\ f_in' = [f_in EXCEPT ![t].k = @ + 1]
    /\ f_pc' = [f_pc EXCEPT ![t] =
                  IF f_in[t].k = Len(RendererRegistrations)
                  THEN "r_set" ELSE "r_register"]
    /\ UNCHANGED <<f_out, pipe_vars, text_vars, trip_vars>>

\* ensure_builtin_renderers_registered, line 495, and the rest of
\* Converter.__init__.
SetRenderersRegistered(t) ==
    /\ f_pc[t] = "r_set"
    /\ f_obj' = [f_obj EXCEPT !._BUILTIN_RENDERERS_REGISTERED = TRUE]
    /\ f_pc' = [f_pc EXCEPT ![t] = "ready"]
    /\ f_in' = [f_in EXCEPT ![t].built = @ + 1]
    /\ UNCHANGED <<f_out, pipe_vars, text_vars, trip_vars>>

\* A convert call of a thread that holds a Converter: the registries are
\* read for the tag of a shape.
ConvertLookup(t) ==
    /\ f_pc[t] = "ready"
    /\ \E tag \in {"StraightLine", "Curve", "arc", "Unknown"} :
          f_out' = [f_out EXCEPT ![t] =
                      << tag, ProcessorRegistry_get_processor(f_obj, tag), RendererRegistry_get_renderer(f_obj, tag) >>]
    /\ UNCHANGED <<f_pc, f_in, f_obj, pipe_vars, text_vars, trip_vars>>

\* A further Converter is constructed by the thread.
ConstructFurther(t) ==
    /\ f_pc[t] = "ready"
    /\ f_in[t].built < MaxConstructions
    /\ f_pc' = [f_pc EXCEPT ![t] = "p_check"]
    /\ UNCHANGED <<f_in, f_obj, f_out, pipe_vars, text_vars, trip_vars>>

NextRegistries ==
    \E t \in ConverterThreads :
        \/ CheckProcessors(t)
        \/ RegisterProcessor(t)
        \/ RegisterFallback(t)
        \/ SetProcessorsRegistered(t)
        \/ CheckRenderers(t)
        \/ RegisterRenderer(t)
        \/ SetRenderersRegistered(t)
        \/ ConvertLookup(t)
        \/ ConstructFurther(t)

SpecRegistries == InitRegistries /\ [][NextRegistries]_vars

\* ---------------------------------------------------------------- C28
\* ensure_builtin_processors_registered has returned in the thread.
ProcessorsEnsured(t) ==
    f_in[t].built >= 1 \/ f_pc[t] \in {"r_check", "r_register", "r_set", "ready"}

\* ensure_builtin_renderers_registered has returned in the thread.
RenderersEnsured(t) == f_in[t].built >= 1

====
